---- MODULE Spec2Model ----
(***************************************************************************)
(* Model of PyMinitel's link engine (src/minitel/Minitel.py) and of the    *)
(* Sequence byte buffer (src/minitel/Sequence.py).                         *)
(*                                                                         *)
(* The engine owns two FIFO queues (entree, sortie) shared between the     *)
(* caller's thread and two pump threads (_gestion_entree, _gestion_sortie).*)
(* Every blocking queue operation of the code is one step of the model;    *)
(* purely local computation between two of them belongs to the step that   *)
(* precedes it.                                                            *)
(*                                                                         *)
(* The widgets of src/minitel/ui (ChampTexte, Conteneur, Menu) are modelled *)
(* by their attributes; what they send to the Minitel is left out.          *)
(***************************************************************************)
EXTENDS Integers, Sequences, FiniteSets, TLC

\* ------------------------------------------------------------------ bounds
\* Number of bytes the device sends during a framing run.
MaxRecu == 4
\* Number of bytes the device sends during a transaction run.
MaxReponse == 2
\* Number of appeler() invocations of a transaction run.
MaxAppels == 1

\* ------------------------------------------------- protocol constants
\* minitel/constantes.py (imported at Minitel.py:12-18)
ESC == 27
SS2 == 25
SEP == 19
CSI == <<ESC, 91>>

\* Bytes the device may send in a framing run: the three introducers, the
\* CSI second byte '[' and the two parameter markers '2' and '4'.
OctetsTrame == {SS2, SEP, ESC, 91, 50, 52}
\* Bytes the device may send in a transaction run.
OctetsReponse == {SEP, 94}
\* Contents handed to appeler(): canonical lists of integers.
Contenus == { <<>>, <<ESC, 57>>, <<ESC, 58, 233>> }
\* Expected reply lengths handed to appeler().
Attentes == {0, 1, 2}

None == "None"
\* the pumps' local variables while they hold no character
SansCaractere == [oct |-> 0, num |-> 0]
SansUnicode == 0 - 1

VARIABLES
    continuer,    \* self._continuer
    entree,       \* self.entree: queue of received bytes, [oct, num] records
    recu,         \* every byte read from the transport, in reception order
    e_pc,         \* _gestion_entree: position of the reader pump
    e_car,        \* _gestion_entree: caractere just read
    e_ref,        \* _gestion_entree: queue object self.entree resolved to
    sortie,       \* self.sortie: queue of characters to transmit
    taches,       \* self.sortie.unfinished_tasks
    s_pc,         \* _gestion_sortie: position of the writer pump
    s_car,        \* _gestion_sortie: sortie_unicode
    ecrit,        \* bytes written to and flushed on the transport
    mis,          \* every character put on sortie, in order
    r_pc,         \* recevoir_sequence: position of the caller
    r_bloque,     \* recevoir_sequence: bloque argument
    r_attente,    \* recevoir_sequence: attente argument
    sequence,     \* recevoir_sequence: sequence.valeurs being assembled
    r_retires,    \* records dequeued by the current/last recevoir_sequence
    trame,        \* valeurs of the Sequence last returned by recevoir_sequence
    issue,        \* how the last recevoir_sequence ended
    rendus,       \* concatenation of every frame returned so far
    a_pc,         \* appeler: position of the caller
    a_attente,    \* appeler: attente argument
    a_reste,      \* envoyer: values of contenu not yet put on sortie
    retour,       \* appeler: retour.valeurs being collected
    a_retires,    \* records dequeued by the current/last appeler
    a_avant,      \* records that were in entree when appeler was invoked
    depuis,       \* records put on the current entree queue since it was created
    a_issue,      \* how the last appeler ended
    a_nb,         \* number of appeler invocations so far
    a_lus,        \* bytes read from the transport when appeler replaced entree
    f_pc,         \* close: position of the caller
    port,         \* self._minitel: the transport, open or closed
    env_pc,       \* envoyer: position of each sending thread
    env_reste,    \* envoyer: values of contenu each thread has yet to put
    env_tout,     \* values handed to envoyer by each thread, in call order
    env_nb,       \* number of envoyer invocations so far
    mis_qui,      \* the thread that put each character of mis
    mode,         \* self.mode
    m_pc,         \* definir_mode: position of the caller
    m_cible,      \* definir_mode: the mode argument of the latest invocation
    m_depart,     \* self.mode when definir_mode was invoked
    m_resultat,   \* value returned by the latest definir_mode
    journal,      \* appeler calls of the latest definir_mode: contenu, attente
    m_reponses,   \* what each of these appeler calls returned
    m_nb,         \* number of definir_mode invocations so far
    d_mode,       \* the mode the device itself is in
    q_etat,       \* Sequence: whether the object has been constructed
    q_std,        \* Sequence.standard
    q_valeurs,    \* Sequence.valeurs
    q_hist,       \* the values given to the constructor and to ajoute, in order
    q_arg,        \* the argument of the latest egale
    q_res,        \* what the latest egale returned
    q_nb,         \* number of egale calls so far
    vitesse,      \* self.vitesse
    debit,        \* self._minitel.baudrate
    basiques,     \* the dictionary CAPACITES_BASIQUES
    types,        \* the dictionaries of TYPE_MINITELS, by model byte
    cap,          \* self.capacite: the dictionary it refers to
    n_pc,         \* identifier, deviner_vitesse, definir_vitesse: position
    n_op,         \* the latest of these operations
    n_arg,        \* definir_vitesse: the vitesse argument
    n_retour,     \* deviner_vitesse: the value returned
    n_ok,         \* definir_vitesse: the value returned
    n_journal,    \* appeler calls of the latest operation: debit, contenu,
                  \* attente and the Sequence returned
    n_i,          \* deviner_vitesse: index of the rate under test
    n_nb,         \* number of these operations so far
    rp_issue,     \* repeter: how the latest call ended
    rp_car,       \* repeter: the caractere argument
    rp_longueur,  \* repeter: the longueur argument
    rp_avant,     \* repeter: number of characters put before the call
    rd_pc,        \* redefinir: position of the caller
    rd_jeu,       \* redefinir: the jeu argument
    rd_dessins,   \* redefinir: the pixels of dessins not yet looked at
    rd_octet,     \* redefinir: octet, the bits gathered so far
    rd_compte,    \* redefinir: compte_pixel
    rd_envois,    \* redefinir: the Sequence of each envoyer call, in order
    ct_etat,      \* ChampTexte: whether the field has been constructed
    ct_visible,   \* ChampTexte.longueur_visible
    ct_totale,    \* ChampTexte.longueur_totale
    ct_initiale,  \* ChampTexte: the valeur argument of the constructor
    ct_valeur,    \* ChampTexte.valeur, as code points
    ct_x,         \* ChampTexte.curseur_x
    ct_decalage,  \* ChampTexte.decalage
    ct_accent,    \* ChampTexte.accent: a Sequence's valeurs, <<>> for None
    ct_bip,       \* ChampTexte: whether the latest key made the Minitel beep
    ct_gere,      \* ChampTexte: what the latest gere_touche returned
    ct_nb,        \* number of keys given to the field so far
    cn_elements,  \* Conteneur.elements: the class of each element
    cn_actif,     \* Conteneur.element_actif: its index in elements, 0 for None
    cn_touche,    \* the key of the latest gere_touche, <<>> once ajoute followed
    cn_avant,     \* element_actif when that key arrived
    cn_bip,       \* whether that key made the Minitel beep
    cn_gere,      \* what that gere_touche returned
    mn_etat,      \* Menu: whether the menu has been constructed
    mn_options,   \* Menu.options
    mn_selection, \* Menu.selection
    mn_initiale,  \* Menu: the selection argument of the constructor
    mn_touche,    \* the key of the latest gere_touche
    mn_avant,     \* Menu.selection when that key arrived
    mn_bip,       \* whether that key made the Minitel beep
    mn_gere       \* what that gere_touche returned

varsEntree == << entree, recu, e_pc, e_car, e_ref, depuis >>
varsSortie == << sortie, taches, s_pc, s_car, ecrit, mis >>
varsRS     == << r_pc, r_bloque, r_attente, sequence, r_retires, trame, issue,
                 rendus >>
varsAP     == << a_pc, a_attente, a_reste, retour, a_retires, a_avant,
                 a_issue, a_nb, a_lus >>

varsFin    == << f_pc, port >>
varsEnv    == << env_pc, env_reste, env_tout, env_nb, mis_qui >>
varsMode   == << mode, m_pc, m_cible, m_depart, m_resultat, journal,
                 m_reponses, m_nb, d_mode >>
varsSeq    == << q_etat, q_std, q_valeurs, q_hist, q_arg, q_res, q_nb >>
varsNego   == << vitesse, debit, basiques, types, cap, n_pc, n_op, n_arg,
                 n_retour, n_ok, n_journal, n_i, n_nb >>
varsRep    == << rp_issue, rp_car, rp_longueur, rp_avant >>
varsRed    == << rd_pc, rd_jeu, rd_dessins, rd_octet, rd_compte, rd_envois >>
varsChamp  == << ct_etat, ct_visible, ct_totale, ct_initiale, ct_valeur, ct_x,
                 ct_decalage, ct_accent, ct_bip, ct_gere, ct_nb >>
varsCont   == << cn_elements, cn_actif, cn_touche, cn_avant, cn_bip, cn_gere >>
varsMenu   == << mn_etat, mn_options, mn_selection, mn_initiale, mn_touche,
                 mn_avant, mn_bip, mn_gere >>
varsUI     == << varsRed, varsChamp, varsCont, varsMenu >>
varsPlus   == << varsSeq, varsNego, varsRep, varsUI >>
varsSuite  == << varsFin, varsEnv, varsMode, varsPlus >>
varsCoeur  == << continuer, varsEntree, varsSortie, varsRS, varsAP, varsFin,
                 varsEnv, varsMode, varsSeq, varsNego, varsRep >>

vars == << continuer, entree, recu, e_pc, e_car, e_ref, sortie, taches, s_pc,
           s_car, ecrit, mis, r_pc, r_bloque, r_attente, sequence, r_retires,
           trame, issue, rendus, a_pc, a_attente, a_reste, retour, a_retires,
           a_avant, depuis, a_issue, a_nb, f_pc, port, env_pc, env_reste,
           env_tout, env_nb, mis_qui, mode, m_pc, m_cible, m_depart,
           m_resultat, journal, m_reponses, m_nb, q_etat, q_std, q_valeurs,
           q_hist, q_arg, q_res, q_nb, vitesse, debit, basiques, types, cap,
           n_pc, n_op, n_arg, n_retour, n_ok, n_journal, n_i, n_nb, rp_issue,
           rp_car, rp_longueur, rp_avant, a_lus, d_mode, varsUI >>


\* Threads that may call envoyer.
Emetteurs == {1, 2}

\* ------------------------------------------------------------ helpers
Octs(q) == [i \in 1..Len(q) |-> q[i].oct]

\* bytes.decode(): one UTF-8 byte below 128 is the code point of that value.
\* The link is 7 bits wide (Minitel.py:137), so no other byte is received.
Decode(b) == b

\* UNICODEVERSVIDEOTEX, restricted to the entries the model uses
\* (code point -> bytes of the hexadecimal string).
UnicodeVersVideotex ==
    [c \in {163, 233} |-> IF c = 163 THEN <<25, 35>> ELSE <<25, 66, 101>>]

\* Sequence.unicode_vers_minitel in the VIDEOTEX standard: the table's entry,
\* else NFKD + encode('ascii', 'replace'): an ASCII character is kept, any
\* other character without decomposition becomes '?'.
UnicodeVersMinitel(c) ==
    IF c \in DOMAIN UnicodeVersVideotex THEN UnicodeVersVideotex[c]
    ELSE IF c < 128 THEN <<c>>
    ELSE <<63>>

\* Sequence.ajoute applied to a one-character string.
Ajoute(valeurs, c) == valeurs \o UnicodeVersMinitel(c)

\* chr(valeur).encode(): UTF-8, two bytes from 128 on.
Encode(c) == IF c < 128 THEN <<c>> ELSE <<192 + (c \div 64), 128 + (c % 64)>>

\* The values a Sequence is built from: an integer, a string (its code
\* points), a list (its items) or a Sequence (its valeurs).
Entier(n) == [t |-> "int", v |-> <<n>>]
Texte(points) == [t |-> "str", v |-> points]
Liste(items) == [t |-> "list", v |-> items]
Objet(valeurs) == [t |-> "Sequence", v |-> valeurs]

\* CAPACITES_BASIQUES, TYPE_MINITELS (by model byte) and CONSTRUCTEURS (by
\* manufacturer byte) of minitel/constantes.py, restricted to the keys
\* identifier and definir_vitesse use and to two models and two
\* manufacturers; version None is written 0
CapacitesBasiques ==
    [nom |-> "Minitel inconnu", vitesse |-> 1200, constructeur |-> "Inconnu",
     version |-> 0]
TypeMinitels ==
    [c \in {98, 118} |->
        IF c = 98
        THEN [nom |-> "Minitel 1", vitesse |-> 1200,
              constructeur |-> "Inconnu", version |-> 0]
        ELSE [nom |-> "Minitel 2", vitesse |-> 9600,
              constructeur |-> "Inconnu", version |-> 0]]
Constructeurs ==
    [c \in {66, 67} |-> IF c = 66 THEN "RTIC" ELSE "Telic-Alcatel"]

Init ==
    /\ continuer = TRUE
    /\ entree = <<>> /\ recu = <<>> /\ depuis = <<>>
    /\ e_pc = "boucle" /\ e_car = SansCaractere /\ e_ref = None
    /\ sortie = <<>> /\ taches = 0 /\ s_pc = "boucle" /\ s_car = SansUnicode
    /\ ecrit = <<>> /\ mis = <<>>
    /\ r_pc = "repos" /\ r_bloque = FALSE /\ r_attente = None
    /\ sequence = <<>> /\ r_retires = <<>> /\ trame = <<>>
    /\ issue = "aucune" /\ rendus = <<>>
    /\ a_pc = "repos" /\ a_attente = 0 /\ a_reste = <<>> /\ retour = <<>>
    /\ a_retires = <<>> /\ a_avant = {} /\ a_issue = "aucune" /\ a_nb = 0
    /\ f_pc = "repos" /\ port = "ouvert"
    /\ env_pc = [i \in Emetteurs |-> "repos"]
    /\ env_reste = [i \in Emetteurs |-> <<>>]
    /\ env_tout = [i \in Emetteurs |-> <<>>]
    /\ env_nb = 0 /\ mis_qui = <<>>
    /\ mode = "VIDEOTEX" /\ m_pc = "repos"
    /\ m_cible = "VIDEOTEX" /\ m_depart = "VIDEOTEX" /\ m_resultat = FALSE
    /\ journal = <<>> /\ m_reponses = <<>> /\ m_nb = 0
    /\ q_etat = "neant" /\ q_std = "VIDEOTEX" /\ q_valeurs = <<>>
    /\ q_hist = <<>> /\ q_arg = Entier(0) /\ q_res = FALSE /\ q_nb = 0
    /\ vitesse = 1200 /\ debit = 1200
    /\ basiques = CapacitesBasiques /\ types = TypeMinitels /\ cap = 0
    /\ n_pc = "repos" /\ n_op = "aucune" /\ n_arg = 0 /\ n_retour = 0
    /\ n_ok = FALSE /\ n_journal = <<>> /\ n_i = 0 /\ n_nb = 0
    /\ rp_issue = "aucune" /\ rp_car = Entier(0) /\ rp_longueur = 0
    /\ rp_avant = 0
    /\ a_lus = 0 /\ d_mode = "VIDEOTEX"
    /\ rd_pc = "repos" /\ rd_jeu = "G0" /\ rd_dessins = <<>>
    /\ rd_octet = <<>> /\ rd_compte = 0 /\ rd_envois = <<>>
    /\ ct_etat = "neant" /\ ct_visible = 1 /\ ct_totale = 1
    /\ ct_initiale = <<>> /\ ct_valeur = <<>> /\ ct_x = 0 /\ ct_decalage = 0
    /\ ct_accent = <<>> /\ ct_bip = FALSE /\ ct_gere = FALSE /\ ct_nb = 0
    /\ cn_elements = <<>> /\ cn_actif = 0 /\ cn_touche = <<>> /\ cn_avant = 0
    /\ cn_bip = FALSE /\ cn_gere = FALSE
    /\ mn_etat = "neant" /\ mn_options = <<>> /\ mn_selection = 0
    /\ mn_initiale = 0 /\ mn_touche = <<>> /\ mn_avant = 0
    /\ mn_bip = FALSE /\ mn_gere = FALSE

\* Variant: the item is put at the head of the queue.
Put_EnTete(q, x) == <<x>> \o q

\* Queue.put: the item joins the end of the queue
Put(q, x) == Append(q, x)

\* ------------------------------------------------- reader pump
\* while self._continuer:
E_Test ==
    /\ e_pc = "boucle"
    /\ e_pc' = IF continuer THEN "lire" ELSE "fin"
    /\ UNCHANGED << varsSuite, continuer, entree, recu, e_car, e_ref, depuis >>
    /\ UNCHANGED << varsSortie, varsRS, varsAP >>

\* caractere = self._minitel.read(): one byte of the device, taken from S
E_Lire(S, max) ==
    /\ e_pc = "lire"
    /\ Len(recu) < max
    /\ \E b \in S :
        /\ e_car' = [oct |-> b, num |-> Len(recu) + 1]
        /\ recu' = Append(recu, b)
    /\ e_pc' = "lu"
    /\ UNCHANGED << varsSuite, continuer, entree, e_ref, depuis >>
    /\ UNCHANGED << varsSortie, varsRS, varsAP >>

\* self._minitel.read() returns nothing after the 1 s timeout
E_LireVide ==
    /\ e_pc = "lire"
    /\ e_pc' = "boucle"
    /\ UNCHANGED << varsSuite, continuer, entree, recu, e_car, e_ref, depuis >>
    /\ UNCHANGED << varsSortie, varsRS, varsAP >>

\* self.entree is evaluated: the queue object the put will act on
E_Ref ==
    /\ e_pc = "lu"
    /\ e_pc' = "ref"
    /\ e_ref' = "courante"
    /\ UNCHANGED << varsSuite, continuer, entree, recu, e_car, depuis >>
    /\ UNCHANGED << varsSortie, varsRS, varsAP >>

\* .put(caractere) on that object; a replaced queue is no longer read
E_Put ==
    /\ e_pc = "ref"
    /\ IF e_ref = "courante"
       THEN /\ entree' = Put(entree, e_car)
            /\ depuis' = Append(depuis, e_car)
       ELSE UNCHANGED << entree, depuis >>
    /\ e_pc' = "boucle"
    /\ e_car' = SansCaractere
    /\ e_ref' = None
    /\ UNCHANGED << varsSuite, continuer, recu >>
    /\ UNCHANGED << varsSortie, varsRS, varsAP >>

\* Variant: the timeout of a blocking get is ignored.
PeutExpirer_SansAttente(bloque, attente) == ~bloque

\* ------------------------------------------------- Queue.get
\* Queue.get(block, timeout) on an empty queue raises Empty at once when
\* block is false and when the timeout elapses; with block true and no
\* timeout it waits for an item.
PeutExpirer(bloque, attente) == ~bloque \/ attente # None

\* ------------------------------------------------- recevoir_sequence
\* Variant: the read of line 319 passes no attente.
AttenteSite_SansDelai(site) == IF site = "l306" THEN r_attente ELSE None

\* bloque and attente of the recevoir() call made at each line; the calls of
\* lines 312, 324 and 329 pass bloque = True and no attente, so they raise
\* Empty in no case
BloqueSite(site) == IF site = "l306" THEN r_bloque ELSE TRUE
AttenteSite(site) ==
    IF site = "l306" THEN r_attente
    ELSE IF site = "l319" THEN "0.1"
    ELSE None

\* Variant: SEP is missing from the list of line 310.
Suite306_SansSEP(seq) ==
    IF seq[Len(seq)] = SS2 THEN "l312"
    ELSE IF seq[Len(seq)] = ESC THEN "l319"
    ELSE "retour"

\* line 310-313: what the first byte calls for
Suite306(seq) ==
    IF seq[Len(seq)] \in {SS2, SEP} THEN "l312"
    ELSE IF seq[Len(seq)] = ESC THEN "l319"
    ELSE "retour"

\* Variant: every byte after ESC calls for one more byte.
Suite319_Toujours(seq) == "l324"

\* line 322: a CSI sequence calls for one more byte
Suite319(seq) == IF seq = CSI THEN "l324" ELSE "retour"

\* Variant: 0x34 is missing from the list of line 326.
Suite324_Sans34(seq) == IF seq[Len(seq)] = 50 THEN "l329" ELSE "retour"

\* line 326: ESC, 0x5b, 0x32/0x34 calls for a last byte
Suite324(seq) == IF seq[Len(seq)] \in {50, 52} THEN "l329" ELSE "retour"

\* lines 312 and 329 are followed by the return
SuiteFin(seq) == "retour"

\* self.recevoir(...) got a byte: the sequence once the byte is decoded and
\* added to it
Lu == Ajoute(sequence, Decode(Head(entree).oct))

\* the byte leaves the queue, and the tests that follow the read have chosen
\* pc: the next read, or the return of line 334
RS_Recu(pc) ==
    /\ entree' = Tail(entree)
    /\ r_retires' = Append(r_retires, Head(entree))
    /\ IF pc = "retour"
       THEN /\ r_pc' = "repos"
            /\ trame' = Lu
            /\ issue' = "retour"
            /\ rendus' = rendus \o Lu
            /\ sequence' = <<>>
            /\ r_bloque' = FALSE
            /\ r_attente' = None
       ELSE /\ r_pc' = pc
            /\ sequence' = Lu
            /\ UNCHANGED << trame, issue, rendus, r_bloque, r_attente >>
    /\ UNCHANGED << varsSuite, continuer, recu, e_pc, e_car, e_ref, depuis >>
    /\ UNCHANGED << varsSortie, varsAP >>

\* recevoir_sequence(bloque, attente) is invoked: line 303
RS_Appel(bloque, attente) ==
    /\ r_pc = "repos"
    /\ a_pc = "repos"
    /\ r_pc' = "l306"
    /\ r_bloque' = bloque
    /\ r_attente' = attente
    /\ sequence' = <<>>
    /\ r_retires' = <<>>
    /\ trame' = <<>>
    /\ issue' = "aucune"
    /\ UNCHANGED rendus
    /\ UNCHANGED << varsSuite, continuer, varsEntree, varsSortie, varsAP >>

RS_Premier ==
    /\ r_pc = "l306"
    /\ entree # <<>>
    /\ RS_Recu(Suite306(Lu))
RS_Suite312 ==
    /\ r_pc = "l312"
    /\ entree # <<>>
    /\ RS_Recu(SuiteFin(Lu))
RS_Esc319 ==
    /\ r_pc = "l319"
    /\ entree # <<>>
    /\ RS_Recu(Suite319(Lu))
RS_Csi324 ==
    /\ r_pc = "l324"
    /\ entree # <<>>
    /\ RS_Recu(Suite324(Lu))
RS_Csi329 ==
    /\ r_pc = "l329"
    /\ entree # <<>>
    /\ RS_Recu(SuiteFin(Lu))

\* Variant: Empty raised at line 306 is caught and the sequence returned.
Issue306_Retour == "retour"

\* line 306 is outside the try block: Empty leaves recevoir_sequence
Issue306 == "Empty"

RS_Vide306 ==
    /\ r_pc = "l306"
    /\ entree = <<>>
    /\ PeutExpirer(BloqueSite("l306"), AttenteSite("l306"))
    /\ r_pc' = "repos"
    /\ issue' = Issue306
    /\ sequence' = <<>>
    /\ r_bloque' = FALSE
    /\ r_attente' = None
    /\ UNCHANGED << r_retires, trame, rendus >>
    /\ UNCHANGED << varsSuite, continuer, varsEntree, varsSortie, varsAP >>

\* lines 330-334: Empty raised at line 319 is caught, the sequence returned
RS_Vide319 ==
    /\ r_pc = "l319"
    /\ entree = <<>>
    /\ PeutExpirer(BloqueSite("l319"), AttenteSite("l319"))
    /\ r_pc' = "repos"
    /\ trame' = sequence
    /\ issue' = "retour"
    /\ rendus' = rendus \o sequence
    /\ sequence' = <<>>
    /\ r_bloque' = FALSE
    /\ r_attente' = None
    /\ UNCHANGED r_retires
    /\ UNCHANGED << varsSuite, continuer, varsEntree, varsSortie, varsAP >>

\* Arguments of recevoir_sequence: blocking without timeout (the default),
\* blocking with a timeout (UI.py:96), non-blocking.
ArgsRS == { <<TRUE, None>>, <<TRUE, "T">>, <<FALSE, None>> }

RS_Pas ==
    \/ RS_Premier \/ RS_Suite312 \/ RS_Esc319 \/ RS_Csi324 \/ RS_Csi329
    \/ RS_Vide306 \/ RS_Vide319

\* Framing run: the reader pump and one caller of recevoir_sequence.
NextTrame ==
    \/ E_Test
    \/ E_Lire(OctetsTrame, MaxRecu)
    \/ E_LireVide
    \/ E_Ref
    \/ E_Put
    \/ \E a \in ArgsRS : RS_Appel(a[1], a[2])
    \/ RS_Premier
    \/ RS_Suite312
    \/ RS_Esc319
    \/ RS_Csi324
    \/ RS_Csi329
    \/ RS_Vide306
    \/ RS_Vide319

SpecTrame == Init /\ [][NextTrame]_vars

\* ------------------------------------------------- writer pump
\* Variant: the loop ends as soon as the flag is cleared.
BoucleSortie_SansVidage == continuer

\* Variant: the loop never ends.
BoucleSortie_SansFin == TRUE

\* while self._continuer or not self.sortie.empty():
BoucleSortie == continuer \/ sortie # <<>>

\* Variant: task_done() is not called.
TaskDone_Oublie(t) == t

\* Queue.task_done: one unfinished task less
TaskDone(t) == t - 1

S_Test ==
    /\ s_pc = "boucle"
    /\ s_pc' = IF BoucleSortie THEN "get" ELSE "fin"
    /\ UNCHANGED << sortie, taches, s_car, ecrit, mis >>
    /\ UNCHANGED << varsSuite, continuer, varsEntree, varsRS, varsAP >>

\* sortie_unicode = self.sortie.get(block = True, timeout = 1)
S_Get ==
    /\ s_pc = "get"
    /\ sortie # <<>>
    /\ s_car' = Head(sortie)
    /\ sortie' = Tail(sortie)
    /\ s_pc' = "ecrire"
    /\ UNCHANGED << taches, ecrit, mis >>
    /\ UNCHANGED << varsSuite, continuer, varsEntree, varsRS, varsAP >>

\* except Empty: continue
S_GetVide ==
    /\ s_pc = "get"
    /\ sortie = <<>>
    /\ s_pc' = "boucle"
    /\ UNCHANGED << sortie, taches, s_car, ecrit, mis >>
    /\ UNCHANGED << varsSuite, continuer, varsEntree, varsRS, varsAP >>

\* self._minitel.write(sortie_unicode.encode()); self._minitel.flush()
S_Ecrire ==
    /\ s_pc = "ecrire"
    /\ ecrit' = ecrit \o Encode(s_car)
    /\ s_pc' = "fait"
    /\ UNCHANGED << sortie, taches, s_car, mis >>
    /\ UNCHANGED << varsSuite, continuer, varsEntree, varsRS, varsAP >>

\* self.sortie.task_done()
S_TaskDone ==
    /\ s_pc = "fait"
    /\ taches' = TaskDone(taches)
    /\ s_car' = SansUnicode
    /\ s_pc' = "boucle"
    /\ UNCHANGED << sortie, ecrit, mis >>
    /\ UNCHANGED << varsSuite, continuer, varsEntree, varsRS, varsAP >>

\* ------------------------------------------------- appeler
\* Variant: the receive queue is kept.
NouvelleFile_Meme(ancienne) == ancienne

\* self.entree = Queue()
NouvelleFile(ancienne) == <<>>

\* Variant: the barrier is an empty queue.
JoinLibre_FileVide == sortie = <<>>

\* self.sortie.join() returns when every item put has been task_done()
JoinLibre == taches = 0

\* Variant: the loop runs once more.
CollecteFinie_Decale(n, attente) == n > attente

\* for _ in range(0, attente): the loop ends after attente bytes
CollecteFinie(n, attente) == n >= attente

\* except Empty: break
SurEmpty == "retour_Empty"

\* appeler(contenu, attente) is invoked: line 363
AP_Appel(contenu, attente) ==
    /\ a_pc = "repos"
    /\ r_pc = "repos"
    /\ f_pc \in {"repos", "fini"}
    /\ a_nb < MaxAppels
    /\ a_nb' = a_nb + 1
    /\ a_pc' = "l366"
    /\ a_attente' = attente
    /\ a_reste' = contenu
    /\ retour' = <<>>
    /\ a_retires' = <<>>
    /\ a_avant' = { entree[i] : i \in 1..Len(entree) }
    /\ a_issue' = "aucune"
    /\ UNCHANGED a_lus
    /\ UNCHANGED << varsSuite, continuer, varsEntree, varsSortie, varsRS >>

\* line 366: the receive queue is replaced; a put already bound to the old
\* queue object goes to that object
AP_Vider ==
    /\ a_pc = "l366"
    /\ entree' = NouvelleFile(entree)
    /\ depuis' = <<>>
    /\ e_ref' = IF e_pc = "ref" THEN "perimee" ELSE e_ref
    /\ a_lus' = Len(recu)
    /\ a_pc' = IF a_reste = <<>> THEN "l372" ELSE "l238"
    /\ UNCHANGED << a_attente, a_reste, retour, a_retires, a_avant, a_issue,
                    a_nb >>
    /\ UNCHANGED << varsSuite, continuer, recu, e_pc, e_car, varsSortie, varsRS >>

\* envoyer, line 238: self.sortie.put(chr(valeur)) for the next value
AP_Envoyer ==
    /\ a_pc = "l238"
    /\ sortie' = Put(sortie, Head(a_reste))
    /\ mis' = Append(mis, Head(a_reste))
    /\ taches' = taches + 1
    /\ a_reste' = Tail(a_reste)
    /\ a_pc' = IF Tail(a_reste) = <<>> THEN "l372" ELSE "l238"
    /\ UNCHANGED << a_attente, retour, a_retires, a_avant, a_issue, a_nb,
                    a_lus >>
    /\ UNCHANGED << s_pc, s_car, ecrit >>
    /\ UNCHANGED << varsSuite, continuer, varsEntree, varsRS >>

\* line 372: self.sortie.join(), then retour = Sequence() and the loop test
AP_Join ==
    /\ a_pc = "l372"
    /\ JoinLibre
    /\ IF CollecteFinie(0, a_attente)
       THEN a_pc' = "repos" /\ a_issue' = "retour"
       ELSE a_pc' = "l380" /\ UNCHANGED a_issue
    /\ UNCHANGED << a_attente, a_reste, retour, a_retires, a_avant, a_nb,
                    a_lus >>
    /\ UNCHANGED << varsSuite, continuer, varsEntree, varsSortie, varsRS >>

\* line 380-381: a byte arrived within the second, it is added to retour
AP_Collecte ==
    /\ a_pc = "l380"
    /\ entree # <<>>
    /\ entree' = Tail(entree)
    /\ a_retires' = Append(a_retires, Head(entree))
    /\ retour' = Ajoute(retour, Decode(Head(entree).oct))
    /\ IF CollecteFinie(Len(a_retires) + 1, a_attente)
       THEN a_pc' = "repos" /\ a_issue' = "retour"
       ELSE a_pc' = "l380" /\ UNCHANGED a_issue
    /\ UNCHANGED << a_attente, a_reste, a_avant, a_nb, a_lus >>
    /\ UNCHANGED << varsSuite, continuer, recu, e_pc, e_car, e_ref, depuis >>
    /\ UNCHANGED << varsSortie, varsRS >>

\* line 382-387: no byte within the second, the collection is given up
AP_CollecteVide ==
    /\ a_pc = "l380"
    /\ entree = <<>>
    /\ a_pc' = "repos"
    /\ a_issue' = SurEmpty
    /\ UNCHANGED << a_attente, a_reste, retour, a_retires, a_avant, a_nb,
                    a_lus >>
    /\ UNCHANGED << varsSuite, continuer, varsEntree, varsSortie, varsRS >>

\* Transaction run: both pumps and one caller of appeler.
NextAppel ==
    \/ E_Test
    \/ E_Lire(OctetsReponse, MaxReponse)
    \/ E_LireVide
    \/ E_Ref
    \/ E_Put
    \/ S_Test
    \/ S_Get
    \/ S_GetVide
    \/ S_Ecrire
    \/ S_TaskDone
    \/ \E c \in Contenus, n \in Attentes : AP_Appel(c, n)
    \/ AP_Vider
    \/ AP_Envoyer
    \/ AP_Join
    \/ AP_Collecte
    \/ AP_CollecteVide

SpecAppel == Init /\ [][NextAppel]_vars

\* =================================================================
\* Properties of recevoir_sequence (checked under SpecTrame)
\* =================================================================
Prefixe(p, q) == Len(p) <= Len(q) /\ p = SubSeq(q, 1, Len(p))

\* recevoir_sequence has returned a Sequence to the caller
Rendu == r_pc = "repos" /\ issue = "retour"

\* the records dequeued by the call are consecutive bytes of the reception
Consecutifs(q) == \A i \in 1..Len(q) - 1 : q[i + 1].num = q[i].num + 1

\* C1: when the first byte dequeued is SS2 or SEP the returned frame is that
\* byte and the next inbound byte (2 bytes); when it is any other byte but
\* ESC the frame is that byte alone and nothing else was dequeued.
C1_PremierNonEsc ==
    (Rendu /\ r_retires # <<>> /\ r_retires[1].oct # ESC) =>
        /\ trame = Octs(r_retires)
        /\ Consecutifs(r_retires)
        /\ Len(r_retires) = IF r_retires[1].oct \in {SS2, SEP} THEN 2 ELSE 1

C1_Temoin == Rendu /\ trame = <<SEP, 91>> /\ Len(r_retires) = 2

\* C2: with ESC dequeued and the inbound queue empty, the wait of line 319
\* can end by its timeout, and a call that dequeued ESC alone has returned
\* the frame [ESC]: it has not raised Empty.
C2_EscSeul ==
    /\ (r_pc = "l319" /\ entree = <<>>) => ENABLED RS_Vide319
    /\ (r_pc = "repos" /\ Octs(r_retires) = <<ESC>>) =>
            (issue = "retour" /\ trame = <<ESC>>)

C2_Temoin == Rendu /\ trame = <<ESC>> /\ Octs(r_retires) = <<ESC>>

\* C3: a call that dequeued ESC, 0x5b returns ESC, 0x5b, x (3 bytes) when x
\* is neither 0x32 nor 0x34, and ESC, 0x5b, x, y (4 bytes) otherwise.
C3_TramesCSI ==
    (Rendu /\ Len(r_retires) >= 2 /\ SubSeq(Octs(r_retires), 1, 2) = <<ESC, 91>>) =>
        /\ Len(r_retires) >= 3
        /\ Len(r_retires) = IF r_retires[3].oct \in {50, 52} THEN 4 ELSE 3
        /\ trame = Octs(r_retires)
        /\ Consecutifs(r_retires)

C3_Temoin == Rendu /\ trame = <<ESC, 91, 52, SS2>>

\* C4: every returned frame has 1 to 4 bytes, and ESC followed within the
\* window by a byte other than 0x5b gives a frame of 2 bytes.
C4_Longueur ==
    Rendu =>
        /\ Len(trame) \in 1..4
        /\ (Len(r_retires) >= 2 /\ r_retires[1].oct = ESC /\ r_retires[2].oct # 91)
              => (Len(r_retires) = 2 /\ trame = Octs(r_retires))

C4_Temoin == Rendu /\ trame = <<ESC, 50>>

\* C5 (as stated): a call that found no first byte returns an empty Sequence.
C5_RetourVide ==
    (r_pc = "repos" /\ issue # "aucune" /\ r_retires = <<>>) =>
        (issue = "retour" /\ trame = <<>>)

\* C5 (amended): a call that found no first byte raises Empty and has dequeued
\* nothing; Empty is raised in no other case, and no returned Sequence is
\* empty.
C5_EmptyLeve ==
    (r_pc = "repos" /\ issue # "aucune") =>
        /\ (r_retires = <<>>) <=> (issue = "Empty")
        /\ issue = "retour" => Len(trame) >= 1
        /\ issue \in {"retour", "Empty"}

C5_Temoin == r_pc = "repos" /\ issue = "Empty" /\ r_retires = <<>>

\* C6 (as stated): a call made with bloque = True and a timeout never waits
\* without bound: at each of its waits a byte is there or a timeout can end
\* the wait.
C6_ToutBorne ==
    (r_pc # "repos" /\ r_bloque /\ r_attente # None) => ENABLED RS_Pas

\* C6 (amended): only the wait for the first byte (the timeout given) and the
\* wait for the byte after ESC (0.1 s) are bounded; after SS2, after SEP,
\* after ESC 0x5b and after ESC 0x5b 0x32/0x34 the call waits until a byte
\* arrives.
C6_BornePartielle ==
    /\ (r_pc = "l306" /\ (~r_bloque \/ r_attente # None)) => ENABLED RS_Pas
    /\ r_pc = "l319" => ENABLED RS_Pas
    /\ (r_pc \in {"l312", "l324", "l329"} /\ entree = <<>>) => ~ENABLED RS_Pas

C6_Temoin ==
    /\ r_pc = "l324" /\ entree = <<>> /\ r_bloque /\ r_attente = "T"
    /\ Len(recu) = 2 /\ e_pc = "lire"

\* the byte the reader pump has read and not yet put on the queue
EnMain == IF e_pc \in {"lu", "ref"} THEN <<e_car.oct>> ELSE <<>>

\* C7: the frames returned so far, the bytes of the frame being assembled,
\* the queue and the byte in the reader pump's hand make up exactly the
\* bytes read from the transport, in reception order; a returned frame is
\* made of the bytes its call dequeued.
C7_OrdreReception ==
    /\ rendus \o sequence \o Octs(entree) \o EnMain = recu
    /\ Rendu => trame = Octs(r_retires)
    /\ (r_pc = "repos" /\ issue = "Empty") => r_retires = <<>>

C7_Temoin ==
    /\ Rendu /\ rendus = recu /\ Len(rendus) = 4
    /\ Len(trame) = 1 /\ rendus[1] = ESC /\ rendus[2] = 91

\* =================================================================
\* Properties of appeler (checked under SpecAppel)
\* =================================================================
\* appeler has replaced the receive queue
ApresVidage == a_pc \in {"l238", "l372", "l380"} \/ (a_pc = "repos" /\ a_issue # "aucune")

\* appeler has returned to the caller
AppelRendu == a_pc = "repos" /\ a_issue # "aucune"

Elements(q) == { q[i] : i \in 1..Len(q) }

\* C8: once the queue is replaced, neither the queue the caller reads nor
\* the bytes appeler collects hold a byte that was queued when appeler was
\* invoked; every byte read from the queue was put on the new queue.
C8_SansPerimes ==
    ApresVidage =>
        /\ (Elements(entree) \cup Elements(a_retires)) \cap a_avant = {}
        /\ a_retires \o entree = depuis

C8_Temoin ==
    AppelRendu /\ a_avant # {} /\ Len(a_retires) = 1 /\ Len(recu) = 2

\* every character put on sortie, as written by the writer pump
RECURSIVE EncodeTout(_)
EncodeTout(cs) == IF cs = <<>> THEN <<>> ELSE Encode(Head(cs)) \o EncodeTout(Tail(cs))

\* C9: appeler collects only once every character put on sortie has been
\* written and flushed; an empty sortie with a character still in the writer
\* pump's hand does not release the barrier.
C9_Barriere ==
    /\ (a_pc = "l380" \/ AppelRendu) =>
            /\ sortie = <<>>
            /\ s_pc \notin {"ecrire", "fait"}
            /\ ecrit = EncodeTout(mis)
    /\ (a_pc = "l372" /\ s_pc = "ecrire") => ~ENABLED AP_Join

C9_Temoin == a_pc = "l372" /\ sortie = <<>> /\ s_pc = "ecrire" /\ Len(mis) = 3

\* C10: appeler returns at most attente bytes, the first bytes put on the
\* new queue in their order; it returns fewer exactly when a wait of one
\* second elapsed, and ends in no other way than by returning.
C10_Prefixe ==
    AppelRendu =>
        /\ Len(retour) <= a_attente
        /\ retour = Octs(a_retires)
        /\ Prefixe(a_retires, depuis)
        /\ a_issue \in {"retour", "retour_Empty"}
        /\ (a_issue = "retour_Empty") <=> (Len(retour) < a_attente)

C10_Temoin ==
    AppelRendu /\ a_issue = "retour_Empty" /\ Len(retour) = 1 /\ a_attente = 2

\* =================================================================
\* envoyer called on its own, and close
\* =================================================================
\* Number of envoyer() invocations of a run.
MaxEnvois == 2
\* Number of bytes the device sends during a shutdown run.
MaxRecuFin == 1

\* Contents handed to envoyer() by each thread: canonical lists of integers.
ContenusEnvoi == [i \in Emetteurs |->
                    IF i = 1 THEN { <<65, 66>>, <<233>> } ELSE { <<97, 98>> }]

\* envoyer(contenu) is invoked by thread i: lines 233-234, contenu is a
\* Sequence whose valeurs are the list given
EN_Appel(i, contenu) ==
    /\ env_pc[i] = "repos"
    /\ f_pc = "repos"
    /\ a_pc = "repos"
    /\ env_nb < MaxEnvois
    /\ env_nb' = env_nb + 1
    /\ env_reste' = [env_reste EXCEPT ![i] = contenu]
    /\ env_tout' = [env_tout EXCEPT ![i] = @ \o contenu]
    /\ env_pc' = [env_pc EXCEPT ![i] = IF contenu = <<>> THEN "repos" ELSE "l238"]
    /\ UNCHANGED << mis_qui, varsFin, varsMode, varsPlus >>
    /\ UNCHANGED << continuer, varsEntree, varsSortie, varsRS, varsAP >>

\* line 238: self.sortie.put(chr(valeur)) for the next value of thread i
EN_Put(i) ==
    /\ env_pc[i] = "l238"
    /\ sortie' = Put(sortie, Head(env_reste[i]))
    /\ mis' = Append(mis, Head(env_reste[i]))
    /\ mis_qui' = Append(mis_qui, i)
    /\ taches' = taches + 1
    /\ env_reste' = [env_reste EXCEPT ![i] = Tail(@)]
    /\ env_pc' = [env_pc EXCEPT ![i] =
                    IF Tail(env_reste[i]) = <<>> THEN "repos" ELSE "l238"]
    /\ UNCHANGED << env_tout, env_nb, varsFin, varsMode, varsPlus >>
    /\ UNCHANGED << s_pc, s_car, ecrit >>
    /\ UNCHANGED << continuer, varsEntree, varsRS, varsAP >>

\* Variant: close does not wait for the reader pump.
EntreeFinie_SansJoin == TRUE

\* thread.join() on the reader pump returns once _gestion_entree has ended
EntreeFinie == e_pc = "fin"

\* thread.join() on the writer pump returns once _gestion_sortie has ended
SortieFinie == s_pc = "fin"

\* close(), line 173: self._continuer = False
F_Arret ==
    /\ f_pc = "repos"
    /\ a_pc = "repos"
    /\ r_pc = "repos"
    /\ env_pc[1] = "repos"
    /\ continuer' = FALSE
    /\ f_pc' = "join_entree"
    /\ UNCHANGED << port, varsEnv, varsMode, varsPlus >>
    /\ UNCHANGED << varsEntree, varsSortie, varsRS, varsAP >>

\* lines 176-177, first thread
F_JoinEntree ==
    /\ f_pc = "join_entree"
    /\ EntreeFinie
    /\ f_pc' = "join_sortie"
    /\ UNCHANGED << port, varsEnv, varsMode, varsPlus >>
    /\ UNCHANGED << continuer, varsEntree, varsSortie, varsRS, varsAP >>

\* lines 176-177, second thread
F_JoinSortie ==
    /\ f_pc = "join_sortie"
    /\ SortieFinie
    /\ f_pc' = "l179"
    /\ UNCHANGED << port, varsEnv, varsMode, varsPlus >>
    /\ UNCHANGED << continuer, varsEntree, varsSortie, varsRS, varsAP >>

\* line 179: self._minitel.close(), and close returns
F_Fermer ==
    /\ f_pc = "l179"
    /\ port' = "ferme"
    /\ f_pc' = "fini"
    /\ UNCHANGED << varsEnv, varsMode, varsPlus >>
    /\ UNCHANGED << continuer, varsEntree, varsSortie, varsRS, varsAP >>

\* the steps of each thread
PasEntree(S, max) == E_Test \/ E_Lire(S, max) \/ E_LireVide \/ E_Ref \/ E_Put
PasSortie == S_Test \/ S_Get \/ S_GetVide \/ S_Ecrire \/ S_TaskDone
PasClose == F_Arret \/ F_JoinEntree \/ F_JoinSortie \/ F_Fermer
PasAppeler == AP_Vider \/ AP_Envoyer \/ AP_Join \/ AP_Collecte \/ AP_CollecteVide

\* Shutdown run: both pumps, one thread calling envoyer and then close.
NextFin ==
    \/ E_Test
    \/ E_Lire(OctetsReponse, MaxRecuFin)
    \/ E_LireVide
    \/ E_Ref
    \/ E_Put
    \/ S_Test
    \/ S_Get
    \/ S_GetVide
    \/ S_Ecrire
    \/ S_TaskDone
    \/ \E c \in ContenusEnvoi[1] : EN_Appel(1, c)
    \/ EN_Put(1)
    \/ F_Arret
    \/ F_JoinEntree
    \/ F_JoinSortie
    \/ F_Fermer

\* A started thread keeps running: a read and a get end after one second at
\* most, and a caller inside envoyer or close goes on.
EquiteFin ==
    /\ WF_vars(PasEntree(OctetsReponse, MaxRecuFin))
    /\ WF_vars(PasSortie)
    /\ WF_vars(EN_Put(1))
    /\ WF_vars(F_JoinEntree \/ F_JoinSortie \/ F_Fermer)

SpecFin == Init /\ [][NextFin]_vars /\ EquiteFin

\* Concurrent senders: the writer pump and two threads calling envoyer.
NextEnvoi ==
    \/ S_Test
    \/ S_Get
    \/ S_GetVide
    \/ S_Ecrire
    \/ S_TaskDone
    \/ \E i \in Emetteurs : \E c \in ContenusEnvoi[i] : EN_Appel(i, c)
    \/ \E i \in Emetteurs : EN_Put(i)

SpecEnvoi == Init /\ [][NextEnvoi]_vars

\* Transaction run that goes on after close: both pumps, one thread calling
\* appeler and close.
NextAppelFin ==
    \/ E_Test
    \/ E_Lire(OctetsReponse, MaxRecuFin)
    \/ E_LireVide
    \/ E_Ref
    \/ E_Put
    \/ S_Test
    \/ S_Get
    \/ S_GetVide
    \/ S_Ecrire
    \/ S_TaskDone
    \/ \E c \in Contenus, n \in Attentes : AP_Appel(c, n)
    \/ AP_Vider
    \/ AP_Envoyer
    \/ AP_Join
    \/ AP_Collecte
    \/ AP_CollecteVide
    \/ F_Arret
    \/ F_JoinEntree
    \/ F_JoinSortie
    \/ F_Fermer

EquiteAppelFin ==
    /\ WF_vars(PasEntree(OctetsReponse, MaxRecuFin))
    /\ WF_vars(PasSortie)
    /\ WF_vars(PasAppeler)
    /\ WF_vars(F_JoinEntree \/ F_JoinSortie \/ F_Fermer)

SpecAppelFin == Init /\ [][NextAppelFin]_vars /\ EquiteAppelFin

\* =================================================================
\* Properties of appeler, envoyer and close
\* =================================================================
\* C11 (as stated): in whatever state appeler is invoked, it returns.
C11_RetourneToujours == (a_pc # "repos") ~> (a_pc = "repos")

\* C11 (amended): appeler invoked before close returns, after at most
\* attente waits on the receive queue; invoked after close it may wait for
\* ever on the barrier, the writer pump having ended.
C11_RetourneAvantClose ==
    /\ [](a_pc = "l380" => Len(a_retires) < a_attente)
    /\ (a_pc # "repos" /\ f_pc = "repos") ~> (a_pc = "repos")

C11_Temoin ==
    AppelRendu /\ f_pc = "repos" /\ Len(mis) = 3 /\ a_issue = "retour_Empty"

\* C12: with one thread calling envoyer, the bytes written to the transport
\* are the values handed to envoyer, in call order, one byte of that value
\* for each.
C12_UnOctetParValeur == Prefixe(ecrit, env_tout[1])

\* the characters of m that thread i put, q naming the thread of each
RECURSIVE ProjDe(_, _, _)
ProjDe(m, q, i) ==
    IF m = <<>> THEN <<>>
    ELSE (IF Head(q) = i THEN <<Head(m)>> ELSE <<>>) \o ProjDe(Tail(m), Tail(q), i)

Suffixe(p, q) == Len(p) <= Len(q) /\ p = SubSeq(q, Len(q) - Len(p) + 1, Len(q))

\* C13: with two threads calling envoyer, the characters put on sortie are
\* an interleaving of the two lists: each thread's characters are in its own
\* order, none is lost or put twice, and the queue holds the latest of them
\* in that order.
C13_Entrelacement ==
    /\ \A i \in Emetteurs :
          /\ Prefixe(ProjDe(mis, mis_qui, i), env_tout[i])
          /\ env_pc[i] = "repos" => ProjDe(mis, mis_qui, i) = env_tout[i]
    /\ Len(mis_qui) = Len(mis)
    /\ Suffixe(sortie, mis)

\* the two threads' characters alternate
C13_Temoin == mis = <<65, 97, 66, 98>> /\ mis_qui = <<1, 2, 1, 2>>

\* C14: when close has returned sortie is empty and everything handed to
\* envoyer before has been written; the writer pump ends only with the flag
\* cleared and the queue empty.
C14_SortieVidee ==
    /\ f_pc = "fini" =>
          /\ sortie = <<>>
          /\ mis = env_tout[1]
          /\ ecrit = EncodeTout(mis)
    /\ s_pc = "fin" => (~continuer /\ sortie = <<>>)

C14_Temoin == f_pc = "fini" /\ mis = <<65, 66, 233>>

\* C15: the flag, once cleared, stays cleared; when close returns the reader
\* pump has ended; from then on nothing is read from the transport nor put
\* on the receive queue.
C15_PlusDeReception ==
    [][ /\ ~continuer => ~continuer'
        /\ port' = "ferme" => e_pc' = "fin"
        /\ port = "ferme" => (recu' = recu /\ entree' = entree /\ depuis' = depuis)
      ]_vars

C15_Temoin == port = "ferme" /\ Len(recu) = 1 /\ Len(entree) = 1

\* C16: once close is called, and no envoyer is called after, both pumps
\* end and close closes the transport, which it does only after both ended.
C16_CloseTermine ==
    /\ [](f_pc \in {"l179", "fini"} => (e_pc = "fin" /\ s_pc = "fin"))
    /\ [](port = "ferme" => f_pc = "fini")
    /\ ~continuer ~> (port = "ferme" /\ f_pc = "fini")

C16_Temoin == port = "ferme" /\ e_pc = "fin" /\ s_pc = "fin" /\ ecrit # <<>>

\* =================================================================
\* definir_mode
\* =================================================================
\* Number of definir_mode() invocations of a run.
MaxModes == 2

\* the protocol constants of minitel/constantes.py used by definir_mode
PRO2 == <<ESC, 58>>
MIXTE1 == <<50, 125>>
MIXTE2 == <<50, 126>>
TELINFO == <<49, 125>>

\* line 411: the three modes
Modes == {"VIDEOTEX", "MIXTE", "TELEINFORMATIQUE"}

\* Mode names handed to definir_mode: the three modes and an unknown name.
NomsMode == Modes \cup {"AUTRE"}

\* What the device sends in answer to a command: nothing, each of the
\* acknowledgements, a truncated one and one followed by a keystroke.
Repliques == { <<>>, <<SEP>>, <<SEP, 94>>, <<SEP, 112>>, <<SEP, 113>>,
               <<ESC, 91, 63, 122>>, <<SEP, 112, 65>> }

\* Sequence.canonise on a list whose items are lists of integers (an integer
\* item v is written <<v>>, which canonise flattens to the same values)
RECURSIVE Canonise(_)
Canonise(valeur) ==
    IF valeur = <<>> THEN <<>> ELSE Head(valeur) \o Canonise(Tail(valeur))

\* Sequence.egale: the argument is made a Sequence, then valeurs are compared
Egale(valeurs, autre) == valeurs = Canonise(autre)

\* retour.ajoute(...) for each of the bytes taken from the queue
RECURSIVE AjouteTout(_, _)
AjouteTout(valeurs, octets) ==
    IF octets = <<>> THEN valeurs
    ELSE AjouteTout(Ajoute(valeurs, Decode(Head(octets))), Tail(octets))

\* lines 423-449: whether appeler is called, with which contenu and attente,
\* and the expected acknowledgement, by current mode, requested mode and
\* call number
Transaction(de, vers, etape) ==
    IF de = "TELEINFORMATIQUE" /\ vers = "VIDEOTEX"
    THEN [appel |-> TRUE, contenu |-> <<CSI, <<63>>, <<123>>>>, attente |-> 2,
          acquit |-> <<<<SEP>>, <<94>>>>]
    ELSE IF de = "TELEINFORMATIQUE" /\ vers = "MIXTE"
    THEN IF etape = 1
         THEN [appel |-> TRUE, contenu |-> <<CSI, <<63>>, <<123>>>>,
               attente |-> 2, acquit |-> <<<<SEP>>, <<94>>>>]
         ELSE [appel |-> TRUE, contenu |-> <<PRO2, MIXTE1>>, attente |-> 2,
               acquit |-> <<<<SEP>>, <<112>>>>]
    ELSE IF de = "VIDEOTEX" /\ vers = "MIXTE"
    THEN [appel |-> TRUE, contenu |-> <<PRO2, MIXTE1>>, attente |-> 2,
          acquit |-> <<<<SEP>>, <<112>>>>]
    ELSE IF de = "VIDEOTEX" /\ vers = "TELEINFORMATIQUE"
    THEN [appel |-> TRUE, contenu |-> <<PRO2, TELINFO>>, attente |-> 4,
          acquit |-> <<CSI, <<63>>, <<122>>>>]
    ELSE IF de = "MIXTE" /\ vers = "VIDEOTEX"
    THEN [appel |-> TRUE, contenu |-> <<PRO2, MIXTE2>>, attente |-> 2,
          acquit |-> <<<<SEP>>, <<113>>>>]
    ELSE IF de = "MIXTE" /\ vers = "TELEINFORMATIQUE"
    THEN [appel |-> TRUE, contenu |-> <<PRO2, TELINFO>>, attente |-> 4,
          acquit |-> <<CSI, <<63>>, <<122>>>>]
    ELSE [appel |-> FALSE, contenu |-> <<>>, attente |-> 0, acquit |-> <<>>]

\* the mode the command of that call switches the device to: the first call
\* of TELEINFORMATIQUE -> MIXTE (lines 426-429) asks for VIDEOTEX
Cible(de, vers, etape) ==
    IF de = "TELEINFORMATIQUE" /\ vers = "MIXTE" /\ etape = 1
    THEN "VIDEOTEX" ELSE vers

\* the device changes mode exactly when it sends the acknowledgement
ModeAppareil(acquitte, cible) == IF acquitte THEN cible ELSE d_mode

\* Variant: an unknown name is reported as a success.
RetourInconnu_Succes == TRUE

\* line 412: return False
RetourInconnu == FALSE

\* line 411
ModeConnu(nom) == nom \in Modes

\* Variant: the active mode is requested again from the device.
DejaActif_Jamais(nom) == FALSE

\* line 415
DejaActif(nom) == mode = nom

\* Variant: the second call is made whatever the first one gave.
ArretPremier_Jamais(de, vers, resultat) == FALSE

\* lines 426-434: the first call of TELEINFORMATIQUE -> MIXTE failed
ArretPremier(de, vers, resultat) ==
    de = "TELEINFORMATIQUE" /\ vers = "MIXTE" /\ ~resultat

\* Variant: the requested mode is recorded whatever the device answered.
NouveauMode_Toujours(resultat, vers) == vers

\* lines 452-453
NouveauMode(resultat, vers) == IF resultat THEN vers ELSE mode

Min(a, b) == IF a < b THEN a ELSE b

\* the queue records of the bytes octets, the device having sent avant bytes
\* before them
Enfile(octets, avant) ==
    [k \in 1..Len(octets) |-> [oct |-> octets[k], num |-> avant + k]]

\* appeler(contenu, attente), lines 363-387, as one step with both pumps at
\* work: entree is replaced, contenu is put on sortie and written, the
\* device answers replique and at most attente bytes of it are collected
Appeler(contenu, attente, replique) ==
    LET pris == Min(attente, Len(replique))
        files == Enfile(replique, Len(recu))
    IN  /\ recu' = recu \o replique
        /\ depuis' = files
        /\ entree' = SubSeq(files, pris + 1, Len(files))
        /\ a_avant' = { entree[i] : i \in 1..Len(entree) }
        /\ a_retires' = SubSeq(files, 1, pris)
        /\ retour' = AjouteTout(<<>>, SubSeq(replique, 1, pris))
        /\ a_attente' = attente
        /\ a_issue' = IF CollecteFinie(pris, attente) THEN "retour" ELSE SurEmpty
        /\ mis' = mis \o contenu
        /\ ecrit' = ecrit \o EncodeTout(contenu)
        /\ UNCHANGED << sortie, taches, s_pc, s_car, e_pc, e_car, e_ref >>
        /\ a_lus' = Len(recu)
        /\ UNCHANGED << a_pc, a_reste, a_nb >>

\* definir_mode(nom) is invoked: lines 408-421
M_Appel(nom) ==
    /\ m_pc = "repos"
    /\ a_pc = "repos" /\ r_pc = "repos" /\ f_pc = "repos"
    /\ m_nb < MaxModes
    /\ m_nb' = m_nb + 1
    /\ m_cible' = nom
    /\ m_depart' = mode
    /\ journal' = <<>>
    /\ m_reponses' = <<>>
    /\ IF ~ModeConnu(nom)
       THEN m_pc' = "repos" /\ m_resultat' = RetourInconnu
       ELSE IF DejaActif(nom)
       THEN m_pc' = "repos" /\ m_resultat' = TRUE
       ELSE IF ~Transaction(mode, nom, 1).appel
       THEN m_pc' = "repos" /\ m_resultat' = FALSE
       ELSE m_pc' = "l423" /\ UNCHANGED m_resultat
    /\ UNCHANGED << mode, d_mode, varsFin, varsEnv, varsPlus >>
    /\ UNCHANGED << continuer, varsEntree, varsSortie, varsRS, varsAP >>

\* the appeler call of the branch taken and resultat = retour.egale(...);
\* then, unless a second call follows, lines 452-455
M_Premier(replique) ==
    /\ m_pc = "l423"
    /\ LET t == Transaction(mode, m_cible, 1)
           resultat == Egale(AjouteTout(<<>>, SubSeq(replique, 1,
                                 Min(t.attente, Len(replique)))), t.acquit)
       IN  /\ Appeler(Canonise(t.contenu), t.attente, replique)
           /\ journal' = Append(journal,
                 [contenu |-> Canonise(t.contenu), attente |-> t.attente])
           /\ m_reponses' = Append(m_reponses, retour')
           /\ d_mode' = ModeAppareil(resultat, Cible(mode, m_cible, 1))
           /\ IF ArretPremier(mode, m_cible, resultat)
              THEN m_pc' = "repos" /\ m_resultat' = FALSE /\ UNCHANGED mode
              ELSE IF mode = "TELEINFORMATIQUE" /\ m_cible = "MIXTE"
              THEN m_pc' = "l436" /\ UNCHANGED << m_resultat, mode >>
              ELSE /\ m_pc' = "repos"
                   /\ m_resultat' = resultat
                   /\ mode' = NouveauMode(resultat, m_cible)
    /\ UNCHANGED << m_cible, m_depart, m_nb, varsFin, varsEnv, varsPlus >>
    /\ UNCHANGED << continuer, varsRS >>

\* lines 436-437, the second call of TELEINFORMATIQUE -> MIXTE, then 452-455
M_Second(replique) ==
    /\ m_pc = "l436"
    /\ LET t == Transaction(mode, m_cible, 2)
           resultat == Egale(AjouteTout(<<>>, SubSeq(replique, 1,
                                 Min(t.attente, Len(replique)))), t.acquit)
       IN  /\ Appeler(Canonise(t.contenu), t.attente, replique)
           /\ journal' = Append(journal,
                 [contenu |-> Canonise(t.contenu), attente |-> t.attente])
           /\ m_reponses' = Append(m_reponses, retour')
           /\ d_mode' = ModeAppareil(resultat, Cible(mode, m_cible, 2))
           /\ m_pc' = "repos"
           /\ m_resultat' = resultat
           /\ mode' = NouveauMode(resultat, m_cible)
    /\ UNCHANGED << m_cible, m_depart, m_nb, varsFin, varsEnv, varsPlus >>
    /\ UNCHANGED << continuer, varsRS >>

\* Mode run: one thread calling definir_mode, the device answering.
NextMode ==
    \/ \E nom \in NomsMode : M_Appel(nom)
    \/ \E replique \in Repliques : M_Premier(replique)
    \/ \E replique \in Repliques : M_Second(replique)

SpecMode == Init /\ [][NextMode]_vars

\* =================================================================
\* Properties of definir_mode
\* =================================================================
\* the latest definir_mode has returned
ModeRendu == m_pc = "repos" /\ m_nb > 0

\* the transitions made by one command, with the bytes of the command, the
\* expected length and the bytes of the acknowledgement
UnSaut ==
    { [de |-> "TELEINFORMATIQUE", vers |-> "VIDEOTEX",
       contenu |-> <<27, 91, 63, 123>>, attente |-> 2, acquit |-> <<19, 94>>],
      [de |-> "VIDEOTEX", vers |-> "MIXTE",
       contenu |-> <<27, 58, 50, 125>>, attente |-> 2, acquit |-> <<19, 112>>],
      [de |-> "VIDEOTEX", vers |-> "TELEINFORMATIQUE",
       contenu |-> <<27, 58, 49, 125>>, attente |-> 4,
       acquit |-> <<27, 91, 63, 122>>],
      [de |-> "MIXTE", vers |-> "VIDEOTEX",
       contenu |-> <<27, 58, 50, 126>>, attente |-> 2, acquit |-> <<19, 113>>],
      [de |-> "MIXTE", vers |-> "TELEINFORMATIQUE",
       contenu |-> <<27, 58, 49, 125>>, attente |-> 4,
       acquit |-> <<27, 91, 63, 122>>] }

\* C17: a definir_mode that asked for one of the five one-command
\* transitions has made exactly one appeler call, with that transition's
\* command; it returned True and recorded the requested mode if and only if
\* the reply was the expected acknowledgement; otherwise it returned False
\* and the mode is the one it was.
C17_UnSaut ==
    \A t \in UnSaut :
        (ModeRendu /\ m_depart = t.de /\ m_cible = t.vers) =>
            /\ journal = << [contenu |-> t.contenu, attente |-> t.attente] >>
            /\ m_resultat = (m_reponses[1] = t.acquit)
            /\ mode = IF m_reponses[1] = t.acquit THEN t.vers ELSE t.de

\* MIXTE -> TELEINFORMATIQUE refused: the device answered with another
\* acknowledgement
C17_Temoin ==
    /\ ModeRendu /\ m_depart = "MIXTE" /\ m_cible = "TELEINFORMATIQUE"
    /\ m_reponses = << <<19, 112>> >> /\ ~m_resultat /\ mode = "MIXTE"

\* C18: definir_mode from TELEINFORMATIQUE to MIXTE makes two appeler calls
\* in order, to VIDEOTEX then to MIXTE; when the first acknowledgement is
\* not the expected one the second call is not made, False is returned and
\* the mode stays TELEINFORMATIQUE.
C18_DeuxSauts ==
    (m_depart = "TELEINFORMATIQUE" /\ m_cible = "MIXTE") =>
        /\ m_pc = "l436" =>
              /\ journal = << [contenu |-> <<27, 91, 63, 123>>, attente |-> 2] >>
              /\ m_reponses = << <<19, 94>> >>
              /\ mode = "TELEINFORMATIQUE"
        /\ ModeRendu =>
              /\ Len(journal) \in {1, 2}
              /\ Len(m_reponses) = Len(journal)
              /\ journal[1] = [contenu |-> <<27, 91, 63, 123>>, attente |-> 2]
              /\ (m_reponses[1] # <<19, 94>>) <=> (Len(journal) = 1)
              /\ Len(journal) = 1 => (~m_resultat /\ mode = "TELEINFORMATIQUE")
              /\ Len(journal) = 2 =>
                    /\ journal[2] = [contenu |-> <<27, 58, 50, 125>>, attente |-> 2]
                    /\ m_resultat = (m_reponses[2] = <<19, 112>>)
                    /\ mode = IF m_resultat THEN "MIXTE" ELSE "TELEINFORMATIQUE"

C18_Temoin ==
    /\ ModeRendu /\ m_depart = "TELEINFORMATIQUE" /\ m_cible = "MIXTE"
    /\ m_reponses = << <<19, 112>> >> /\ ~m_resultat
    /\ mode = "TELEINFORMATIQUE"

\* C19: definir_mode asked for the mode already recorded returns True at
\* once: nothing is put on sortie, entree is left as it is and the mode is
\* unchanged.
C19_DejaActif ==
    [][ (m_nb' = m_nb + 1 /\ m_cible' = mode) =>
            /\ m_pc' = "repos" /\ m_resultat' = TRUE
            /\ mode' = mode
            /\ journal' = <<>>
            /\ sortie' = sortie /\ mis' = mis /\ ecrit' = ecrit
            /\ entree' = entree /\ recu' = recu
      ]_vars

C19_Temoin ==
    /\ ModeRendu /\ m_depart = "MIXTE" /\ m_cible = "MIXTE" /\ mode = "MIXTE"
    /\ m_resultat /\ journal = <<>> /\ Len(entree) = 1 /\ Len(mis) = 4

\* C20: definir_mode asked for a name that is none of the three modes
\* returns False at once, with no appeler call and the mode unchanged; the
\* recorded mode is always one of the three.
C20_NomInconnu ==
    /\ [](mode \in {"VIDEOTEX", "MIXTE", "TELEINFORMATIQUE"})
    /\ [][ (m_nb' = m_nb + 1
              /\ m_cible' \notin {"VIDEOTEX", "MIXTE", "TELEINFORMATIQUE"}) =>
               /\ m_pc' = "repos" /\ m_resultat' = FALSE
               /\ mode' = mode
               /\ journal' = <<>>
               /\ sortie' = sortie /\ mis' = mis /\ entree' = entree
         ]_vars

C20_Temoin ==
    /\ ModeRendu /\ m_cible = "AUTRE" /\ ~m_resultat /\ journal = <<>>
    /\ m_depart = "TELEINFORMATIQUE" /\ mode = "TELEINFORMATIQUE"

\* =================================================================
\* Sequence
\* =================================================================
\* Number of ajoute() calls on a Sequence, and of egale() calls.
MaxAjouts == 2
MaxEgale == 1

\* line 57: the standards; MIXTE and TELEINFORMATIQUE are converted alike
Standards == {"VIDEOTEX", "MIXTE"}

\* Sequence(), with valeur = None
Rien == [t |-> "None", v |-> <<>>]

\* Values handed to the constructor, to ajoute and to egale: integers, the
\* strings "aé" and "ñ", a Sequence, flat and nested lists, a list
\* holding a Sequence, the empty list.
Valeurs ==
    { Entier(65), Entier(300), Texte(<<97, 233>>), Texte(<<241>>),
      Objet(<<66>>), Liste(<<Entier(67), Texte(<<233>>)>>),
      Liste(<<Liste(<<Entier(68), Liste(<<Texte(<<8364>>)>>)>>), Entier(69)>>),
      Liste(<<Entier(70), Objet(<<71>>), Entier(72)>>), Liste(<<>>) }

ArgsEgale ==
    { Entier(65), Texte(<<97, 233>>), Liste(<<Entier(67), Texte(<<233>>)>>) }

\* UNICODEVERSAUTRE, restricted to the entries the model uses
UnicodeVersAutre ==
    [c \in {163, 233} |-> IF c = 163 THEN <<14, 35, 15>> ELSE <<14, 123, 15>>]

\* normalize('NFKD', caractere) for the characters the model uses: n with
\* tilde decomposes into n and the combining tilde
Nfkd(c) == IF c = 241 THEN <<110, 771>> ELSE <<c>>

\* encode('ascii', 'replace'): '?' for every code point from 128 on
Remplace(points) ==
    [i \in 1..Len(points) |-> IF points[i] < 128 THEN points[i] ELSE 63]

\* Sequence.unicode_vers_minitel, lines 147-156
VersMinitel(c, standard) ==
    IF standard = "VIDEOTEX" /\ c \in DOMAIN UnicodeVersVideotex
    THEN UnicodeVersVideotex[c]
    ELSE IF standard # "VIDEOTEX" /\ c \in DOMAIN UnicodeVersAutre
    THEN UnicodeVersAutre[c]
    ELSE Remplace(Nfkd(c))

\* lines 123-125: each character of a string
RECURSIVE CanoniseTexte(_, _)
CanoniseTexte(points, standard) ==
    IF points = <<>> THEN <<>>
    ELSE VersMinitel(Head(points), standard)
            \o CanoniseTexte(Tail(points), standard)

\* lines 118-133: each element of a list; an element that is neither a
\* string, an integer nor a list matches no branch
RECURSIVE CanoniseItems(_, _)
CanoniseItems(items, standard) ==
    IF items = <<>> THEN <<>>
    ELSE LET element == Head(items)
             ajout == IF element.t = "str"
                      THEN CanoniseTexte(element.v, standard)
                      ELSE IF element.t = "int" THEN element.v
                      ELSE IF element.t = "list"
                      THEN CanoniseItems(element.v, standard)
                      ELSE <<>>
         IN  ajout \o CanoniseItems(Tail(items), standard)

\* Sequence.canonise, lines 105-133
CanoniseValeur(valeur, standard) ==
    IF valeur.t = "int" THEN valeur.v
    ELSE IF valeur.t = "Sequence" THEN valeur.v
    ELSE IF valeur.t = "str" THEN CanoniseTexte(valeur.v, standard)
    ELSE CanoniseItems(valeur.v, standard)

\* Variant: the new values are put in front.
AjouteValeurs_Devant(valeurs, nouvelles) == nouvelles \o valeurs

\* line 80: self.valeurs += ...
AjouteValeurs(valeurs, nouvelles) == valeurs \o nouvelles

\* Sequence.egale, lines 172-179: a value that is not a Sequence is made one
\* by Sequence(sequence), that is in the default standard
EgaleValeur(valeurs, autre) ==
    IF autre.t = "Sequence" THEN valeurs = autre.v
    ELSE valeurs = AjouteValeurs(<<>>, CanoniseValeur(autre, "VIDEOTEX"))

\* Sequence(valeur, standard), lines 55-64
SQ_Construire(valeur, standard) ==
    /\ q_etat = "neant"
    /\ q_etat' = "construite"
    /\ q_std' = standard
    /\ IF valeur.t = "None"
       THEN q_valeurs' = <<>> /\ q_hist' = <<>>
       ELSE /\ q_valeurs' = AjouteValeurs(<<>>, CanoniseValeur(valeur, standard))
            /\ q_hist' = <<valeur>>
    /\ UNCHANGED << q_arg, q_res, q_nb, varsNego, varsRep, varsUI >>
    /\ UNCHANGED << varsFin, varsEnv, varsMode >>
    /\ UNCHANGED << continuer, varsEntree, varsSortie, varsRS, varsAP >>

\* ajoute(valeur), lines 78-81
SQ_Ajoute(valeur) ==
    /\ q_etat = "construite"
    /\ Len(q_hist) <= MaxAjouts
    /\ q_valeurs' = AjouteValeurs(q_valeurs, CanoniseValeur(valeur, q_std))
    /\ q_hist' = Append(q_hist, valeur)
    /\ UNCHANGED << q_etat, q_std, q_arg, q_res, q_nb, varsNego, varsRep, varsUI >>
    /\ UNCHANGED << varsFin, varsEnv, varsMode >>
    /\ UNCHANGED << continuer, varsEntree, varsSortie, varsRS, varsAP >>

\* egale(autre), lines 172-179
SQ_Egale(autre) ==
    /\ q_etat = "construite"
    /\ q_nb < MaxEgale
    /\ q_nb' = q_nb + 1
    /\ q_arg' = autre
    /\ q_res' = EgaleValeur(q_valeurs, autre)
    /\ UNCHANGED << q_etat, q_std, q_valeurs, q_hist, varsNego, varsRep, varsUI >>
    /\ UNCHANGED << varsFin, varsEnv, varsMode >>
    /\ UNCHANGED << continuer, varsEntree, varsSortie, varsRS, varsAP >>

\* Sequence run: one Sequence is constructed, appended to and compared.
NextSequence ==
    \/ \E valeur \in Valeurs \cup {Rien}, standard \in Standards :
          SQ_Construire(valeur, standard)
    \/ \E valeur \in Valeurs : SQ_Ajoute(valeur)
    \/ \E autre \in ArgsEgale \cup {Objet(q_valeurs)} : SQ_Egale(autre)

SpecSequence == Init /\ [][NextSequence]_vars

C27_Coherent ==
    (q_nb > 0 /\ q_arg.t # "Sequence") =>
        q_res = (q_valeurs = CanoniseValeur(q_arg, q_std))

\* the canonical values of every leaf of a value, left to right, a Sequence
\* being a leaf wherever it stands
RECURSIVE Feuilles(_, _)
Feuilles(items, standard) ==
    IF items = <<>> THEN <<>>
    ELSE LET element == Head(items)
         IN  (IF element.t = "list" THEN Feuilles(element.v, standard)
              ELSE CanoniseValeur(element, standard))
                 \o Feuilles(Tail(items), standard)

\* C28: the valeurs of a Sequence are the canonical values of every leaf of
\* the values it was given, in order, none being left out.
C28_ToutesFeuilles == q_valeurs = Feuilles(q_hist, q_std)

\* C29: every element of the valeurs of a Sequence is an integer of 0..255.
C29_Octets == \A i \in 1..Len(q_valeurs) : q_valeurs[i] \in 0..255

\* =================================================================
\* identifier, deviner_vitesse, definir_vitesse
\* =================================================================
\* Number of identifier, deviner_vitesse and definir_vitesse calls of a run.
MaxNego == 2

\* constants of minitel/constantes.py
LONGUEUR_PRO2 == 4
SOH == 1
EOT == 4

\* The commands handed to appeler: [PRO1, ENQROM] (line 483),
\* [PRO1, STATUS_FONCTIONNEMENT] (line 513), [PRO1, STATUS_TERMINAL]
\* (line 553) and [PRO2, PROG, vitesses[vitesse]] (line 599), PRO1 being
\* ESC 0x39 and B300, B1200, B4800, B9600 the codes of the four rates
Requete(nom, v) ==
    IF nom = "ENQROM" THEN Canonise(<< <<ESC, 57>>, <<123>> >>)
    ELSE IF nom = "STATUS_FONCTIONNEMENT" THEN Canonise(<< <<ESC, 57>>, <<114>> >>)
    ELSE IF nom = "STATUS_TERMINAL" THEN Canonise(<< <<ESC, 57>>, <<112>> >>)
    ELSE Canonise(<< PRO2, <<107>>,
                     << IF v = 300 THEN 82 ELSE IF v = 1200 THEN 100
                        ELSE IF v = 4800 THEN 118 ELSE 127 >> >>)

\* What the device sends in answer to the identification request: nothing,
\* a short reply, a wrong first or last byte, and envelopes with known and
\* unknown manufacturer (66 'B', 67 'C', 90 'Z') and model (98 'b', 118 'v',
\* 122 'z') bytes.
RepliquesRom ==
    { <<>>, <<SOH, 67, 98, 53>>, <<2, 67, 98, 53, EOT>>, <<SOH, 67, 98, 53, 3>>,
      <<SOH, 67, 98, 53, EOT>>, <<SOH, 66, 118, 52, EOT>>,
      <<SOH, 66, 122, 49, EOT>>, <<SOH, 90, 118, 50, EOT>> }

\* What the device sends in answer to a status request or a speed command:
\* nothing, a short reply, a full acknowledgement with bit 0 of the fourth
\* byte clear or set.
RepliquesPro ==
    { <<>>, <<ESC, 58>>, <<ESC, 58, 115, 64>>, <<ESC, 58, 115, 65>> }

\* line 546: vitesses
Vitesses == <<9600, 4800, 1200, 300>>

\* Rates handed to definir_vitesse: the four of line 592 and another one.
ArgsVitesse == {300, 1200, 2400, 4800, 9600}

\* self.capacite: the dictionary the attribute refers to (0 stands for
\* CAPACITES_BASIQUES, a model byte for that entry of TYPE_MINITELS)
Capacite == IF cap = 0 THEN basiques ELSE types[cap]

\* Variant: the reply is accepted whatever its first and last bytes.
Enveloppe_SansCadre(valeurs) == Len(valeurs) = 5

\* lines 486-488: the reply is a valid identification
Enveloppe(valeurs) ==
    Len(valeurs) = 5 /\ valeurs[1] = SOH /\ valeurs[5] = EOT

\* lines 500-510: the constructeur entry after the calls, ancien being the
\* entry before; the comparison of line 509 (a string with a list) is
\* never true
Constructeur(c, t, ancien) ==
    IF c = 66 /\ t = 118 THEN "Philips"
    ELSE IF c \in DOMAIN Constructeurs THEN Constructeurs[c]
    ELSE ancien

\* Variant: the rates are tried from the lowest.
Essai_Croissant(i) == Vitesses[5 - i]

\* line 548: the rate of the i-th turn of the loop
Essai(i) == Vitesses[i]

\* Variant: a full acknowledgement is taken as acceptance.
Refus_Inverse(valeurs) == Len(valeurs) # LONGUEUR_PRO2

\* line 602: the device answered before the port changed speed
Refus(valeurs) == Len(valeurs) = LONGUEUR_PRO2

\* Variant: the capability record is not consulted.
VitesseAdmise_SansCapacite(v) == v \in {300, 1200, 4800, 9600}

\* line 595
VitesseAdmise(v) == v \in {300, 1200, 4800, 9600} /\ v <= Capacite.vitesse

\* what appeler returns for a reply
Retour(attente, replique) ==
    AjouteTout(<<>>, SubSeq(replique, 1, Min(attente, Len(replique))))

\* an appeler call as the journal keeps it
Entree(d, contenu, attente, replique) ==
    [debit |-> d, contenu |-> contenu, attente |-> attente,
     retour |-> Retour(attente, replique)]

\* an operation of this group may be invoked
NegoLibre ==
    /\ n_pc = "repos" /\ m_pc = "repos"
    /\ a_pc = "repos" /\ r_pc = "repos" /\ f_pc = "repos"
    /\ n_nb < MaxNego

\* identifier, lines 480-510: the identification request, the validation
\* of the reply and the capability record
ID_Appel(replique) ==
    /\ NegoLibre
    /\ n_nb' = n_nb + 1
    /\ n_op' = "identifier"
    /\ LET contenu == Requete("ENQROM", 0)
           valeurs == Retour(5, replique)
       IN  /\ Appeler(contenu, 5, replique)
           /\ n_journal' = << Entree(debit, contenu, 5, replique) >>
           /\ IF ~Enveloppe(valeurs)
              THEN /\ cap' = 0
                   /\ n_pc' = "repos"
                   /\ UNCHANGED << basiques, types >>
              ELSE LET c == valeurs[2]
                       t == valeurs[3]
                       v == valeurs[4]
                       ref == IF t \in DOMAIN types THEN t ELSE 0
                       dict == IF ref = 0 THEN basiques ELSE types[ref]
                       apres == [dict EXCEPT
                                   !.constructeur = Constructeur(c, t, @),
                                   !.version = v]
                   IN  /\ cap' = ref
                       /\ basiques' = IF ref = 0 THEN apres ELSE basiques
                       /\ types' = IF ref = 0 THEN types
                                   ELSE [types EXCEPT ![ref] = apres]
                       /\ n_pc' = "l513"
    /\ UNCHANGED << vitesse, debit, n_arg, n_retour, n_ok, n_i >>
    /\ UNCHANGED << varsSeq, varsRep, varsUI, varsFin, varsEnv, varsMode >>
    /\ UNCHANGED << continuer, varsRS >>

\* identifier, lines 513-524: the operating status request and the mode
ID_Statut(replique) ==
    /\ n_pc = "l513"
    /\ LET contenu == Requete("STATUS_FONCTIONNEMENT", 0)
           valeurs == Retour(LONGUEUR_PRO2, replique)
       IN  /\ Appeler(contenu, LONGUEUR_PRO2, replique)
           /\ n_journal' = Append(n_journal,
                                  Entree(debit, contenu, LONGUEUR_PRO2, replique))
           /\ mode' = IF Len(valeurs) # LONGUEUR_PRO2 THEN "TELEINFORMATIQUE"
                      ELSE IF valeurs[4] % 2 = 1 THEN "MIXTE"
                      ELSE "VIDEOTEX"
    /\ n_pc' = "repos"
    /\ UNCHANGED << vitesse, debit, basiques, types, cap, n_op, n_arg,
                    n_retour, n_ok, n_i, n_nb >>
    /\ UNCHANGED << m_pc, m_cible, m_depart, m_resultat, journal, m_reponses,
                    m_nb, d_mode >>
    /\ UNCHANGED << varsSeq, varsRep, varsUI, varsFin, varsEnv >>
    /\ UNCHANGED << continuer, varsRS >>

\* deviner_vitesse is invoked: line 546
DV_Appel ==
    /\ NegoLibre
    /\ n_nb' = n_nb + 1
    /\ n_op' = "deviner_vitesse"
    /\ n_journal' = <<>>
    /\ n_i' = 1
    /\ n_pc' = "l548"
    /\ UNCHANGED << vitesse, debit, basiques, types, cap, n_arg, n_retour,
                    n_ok >>
    /\ UNCHANGED << varsSeq, varsRep, varsUI, varsFin, varsEnv, varsMode >>
    /\ UNCHANGED << continuer, varsEntree, varsSortie, varsRS, varsAP >>

\* deviner_vitesse, lines 548-561: one turn of the loop
DV_Essai(replique) ==
    /\ n_pc = "l548"
    /\ debit' = Essai(n_i)
    /\ LET contenu == Requete("STATUS_TERMINAL", 0)
           valeurs == Retour(LONGUEUR_PRO2, replique)
       IN  /\ Appeler(contenu, LONGUEUR_PRO2, replique)
           /\ n_journal' = Append(n_journal,
                                  Entree(Essai(n_i), contenu, LONGUEUR_PRO2, replique))
           /\ IF Len(valeurs) = LONGUEUR_PRO2
              THEN /\ vitesse' = Essai(n_i)
                   /\ n_retour' = Essai(n_i)
                   /\ n_pc' = "repos"
                   /\ UNCHANGED n_i
              ELSE IF n_i = Len(Vitesses)
              THEN /\ n_retour' = 0 - 1
                   /\ n_pc' = "repos"
                   /\ UNCHANGED << vitesse, n_i >>
              ELSE /\ n_i' = n_i + 1
                   /\ UNCHANGED << vitesse, n_retour, n_pc >>
    /\ UNCHANGED << basiques, types, cap, n_op, n_arg, n_ok, n_nb >>
    /\ UNCHANGED << varsSeq, varsRep, varsUI, varsFin, varsEnv, varsMode >>
    /\ UNCHANGED << continuer, varsRS >>

\* definir_vitesse(v) refused at line 595-596
VT_Refus(v) ==
    /\ NegoLibre
    /\ ~VitesseAdmise(v)
    /\ n_nb' = n_nb + 1
    /\ n_op' = "definir_vitesse"
    /\ n_arg' = v
    /\ n_journal' = <<>>
    /\ n_ok' = FALSE
    /\ UNCHANGED << vitesse, debit, basiques, types, cap, n_pc, n_retour, n_i >>
    /\ UNCHANGED << varsSeq, varsRep, varsUI, varsFin, varsEnv, varsMode >>
    /\ UNCHANGED << continuer, varsEntree, varsSortie, varsRS, varsAP >>

\* definir_vitesse(v), lines 599-612: the command, the reply, the port
VT_Appel(v, replique) ==
    /\ NegoLibre
    /\ VitesseAdmise(v)
    /\ n_nb' = n_nb + 1
    /\ n_op' = "definir_vitesse"
    /\ n_arg' = v
    /\ LET contenu == Requete("PROG", v)
           valeurs == Retour(LONGUEUR_PRO2, replique)
       IN  /\ IF Refus(valeurs)
              THEN n_ok' = FALSE /\ UNCHANGED << debit, vitesse >>
              ELSE n_ok' = TRUE /\ debit' = v /\ vitesse' = v
           /\ Appeler(contenu, LONGUEUR_PRO2, replique)
           /\ n_journal' = << Entree(debit, contenu, LONGUEUR_PRO2, replique) >>
    /\ UNCHANGED << basiques, types, cap, n_pc, n_retour, n_i >>
    /\ UNCHANGED << varsSeq, varsRep, varsUI, varsFin, varsEnv, varsMode >>
    /\ UNCHANGED << continuer, varsRS >>

\* Negotiation run: one thread calling the three operations, the device
\* answering.
NextNego ==
    \/ \E replique \in RepliquesRom : ID_Appel(replique)
    \/ \E replique \in RepliquesPro : ID_Statut(replique)
    \/ DV_Appel
    \/ \E replique \in RepliquesPro : DV_Essai(replique)
    \/ \E v \in ArgsVitesse : VT_Refus(v)
    \/ \E v \in ArgsVitesse, replique \in RepliquesPro : VT_Appel(v, replique)

SpecNego == Init /\ [][NextNego]_vars

\* =================================================================
\* Properties of identifier, deviner_vitesse, definir_vitesse
\* =================================================================
\* the latest operation was op and has returned
NegoRendu(op) == n_op = op /\ n_pc = "repos"

\* C21: deviner_vitesse queries the terminal status at 9600, 4800, 1200,
\* 300 in that order and stops at the first rate whose reply has the full
\* length: it returns that rate, which is then the port's rate and the
\* recorded speed; when no reply has the full length it returns -1.
C21_PremierDebit ==
    NegoRendu("deviner_vitesse") =>
        LET k == Len(n_journal)
            debits == <<9600, 4800, 1200, 300>>
        IN  /\ k \in 1..4
            /\ \A i \in 1..k :
                  /\ n_journal[i].debit = debits[i]
                  /\ n_journal[i].contenu = <<27, 57, 112>>
                  /\ n_journal[i].attente = 4
            /\ \A i \in 1..(k - 1) : Len(n_journal[i].retour) # 4
            /\ IF Len(n_journal[k].retour) = 4
               THEN n_retour = debits[k] /\ debit = debits[k] /\ vitesse = debits[k]
               ELSE k = 4 /\ n_retour = 0 - 1

\* a device that acknowledges at 1200 only
C21_Temoin ==
    /\ NegoRendu("deviner_vitesse") /\ Len(n_journal) = 3
    /\ n_retour = 1200 /\ debit = 1200 /\ vitesse = 1200
    /\ n_journal[1].retour = <<>> /\ n_journal[2].retour = <<>>

\* C22: definir_vitesse with an admitted rate: a reply of the full length
\* means False, the port's rate and the recorded speed being kept; any
\* shorter reply means True, both being set to the rate asked for.
C22_Acquittement ==
    [][ ( /\ n_nb' = n_nb + 1 /\ n_op' = "definir_vitesse"
          /\ n_arg' \in {300, 1200, 4800, 9600}
          /\ n_arg' <= Capacite.vitesse ) =>
            /\ Len(n_journal') = 1
            /\ n_journal'[1].contenu[3] = 107
            /\ IF Len(n_journal'[1].retour) = 4
               THEN ~n_ok' /\ debit' = debit /\ vitesse' = vitesse
               ELSE n_ok' /\ debit' = n_arg' /\ vitesse' = n_arg'
      ]_vars

C22_Temoin ==
    /\ NegoRendu("definir_vitesse") /\ n_arg = 4800 /\ n_ok
    /\ debit = 4800 /\ vitesse = 4800
    /\ n_journal[1].retour = <<27, 58>>

\* C23: definir_vitesse with a rate that is none of the four, or above the
\* vitesse of the capability record, returns False with no appeler call:
\* sortie, entree, the port's rate and the recorded speed are unchanged.
C23_Validation ==
    [][ ( /\ n_nb' = n_nb + 1 /\ n_op' = "definir_vitesse"
          /\ (n_arg' \notin {300, 1200, 4800, 9600}
                 \/ n_arg' > Capacite.vitesse) ) =>
            /\ ~n_ok' /\ n_pc' = "repos"
            /\ n_journal' = <<>>
            /\ sortie' = sortie /\ mis' = mis
            /\ entree' = entree /\ recu' = recu
            /\ debit' = debit /\ vitesse' = vitesse
      ]_vars

C23_Temoin ==
    /\ NegoRendu("definir_vitesse") /\ n_arg = 4800 /\ ~n_ok
    /\ n_journal = <<>> /\ Capacite.vitesse = 1200 /\ cap = 98

\* the reply of the identification request of the latest identifier
ReponseRom == n_journal[1].retour

\* the reply is a valid envelope
Valide(r) == Len(r) = 5 /\ r[1] = 1 /\ r[5] = 4

\* C24 (as stated): after identifier with a valid reply the capability
\* record is the table entry of the model byte when known, its constructeur
\* is the table entry of the manufacturer byte when known and its version
\* is the version byte.
C24_Tables ==
    (n_op = "identifier" /\ Valide(ReponseRom)) =>
        /\ ReponseRom[3] \in DOMAIN TypeMinitels =>
              /\ cap = ReponseRom[3]
              /\ Capacite.nom = TypeMinitels[ReponseRom[3]].nom
              /\ Capacite.vitesse = TypeMinitels[ReponseRom[3]].vitesse
        /\ ReponseRom[2] \in DOMAIN Constructeurs =>
              Capacite.constructeur = Constructeurs[ReponseRom[2]]
        /\ Capacite.version = ReponseRom[4]

\* C24 (amended): the same, the constructeur being 'Philips' for the
\* manufacturer byte 'B' with the model byte 'v'; a reply that is no valid
\* envelope writes nothing in the tables and leaves the capability record
\* on the basic defaults.
C24_TablesCorrigees ==
    /\ []( (n_op = "identifier" /\ Valide(ReponseRom)) =>
            /\ ReponseRom[3] \in DOMAIN TypeMinitels =>
                  /\ cap = ReponseRom[3]
                  /\ Capacite.nom = TypeMinitels[ReponseRom[3]].nom
                  /\ Capacite.vitesse = TypeMinitels[ReponseRom[3]].vitesse
            /\ ReponseRom[3] \notin DOMAIN TypeMinitels => cap = 0
            /\ Capacite.constructeur =
                  IF ReponseRom[2] = 66 /\ ReponseRom[3] = 118 THEN "Philips"
                  ELSE IF ReponseRom[2] \in DOMAIN Constructeurs
                  THEN Constructeurs[ReponseRom[2]]
                  ELSE Capacite.constructeur
            /\ Capacite.version = ReponseRom[4] )
    /\ [][ ( /\ n_nb' = n_nb + 1 /\ n_op' = "identifier"
             /\ ~Valide(n_journal'[1].retour) ) =>
               /\ cap' = 0 /\ basiques' = basiques /\ types' = types
               /\ n_pc' = "repos" /\ Len(n_journal') = 1
         ]_vars

C24_Temoin ==
    /\ NegoRendu("identifier") /\ ReponseRom = <<1, 66, 118, 52, 4>>
    /\ cap = 118 /\ Capacite.constructeur = "Philips" /\ Capacite.version = 52
    /\ Capacite.nom = "Minitel 2"

\* C25: identifier with a device that answers nothing leaves the mode
\* TELEINFORMATIQUE.
C25_SansReponse ==
    ( /\ NegoRendu("identifier")
      /\ \A i \in 1..Len(n_journal) : n_journal[i].retour = <<>> ) =>
        mode = "TELEINFORMATIQUE"

\* =================================================================
\* repeter
\* =================================================================
\* REP of minitel/constantes.py
REP == 18

\* Characters handed to repeter: an integer, one-character strings ("a",
\* "é") and a one-item list.
Caracteres ==
    { Entier(65), Texte(<<97>>), Texte(<<233>>), Liste(<<Entier(66)>>) }

\* Counts handed to repeter, around both ends of the accepted range.
Longueurs == {0 - 1, 0, 1, 40, 41}

\* Variant: no upper limit.
LongueurAdmise_SansMaximum(longueur) == longueur > 0

\* line 956: assert longueur > 0 and longueur <= 40
LongueurAdmise(longueur) == longueur > 0 /\ longueur <= 40

\* repeter(caractere, longueur), lines 955-960: the assertions, then
\* envoyer([caractere, REP, 0x40 + longueur - 1]) up to its loop
RP_Appel(caractere, longueur) ==
    /\ env_pc[1] = "repos"
    /\ f_pc = "repos" /\ a_pc = "repos" /\ n_pc = "repos" /\ m_pc = "repos"
    /\ env_nb < MaxEnvois
    /\ env_nb' = env_nb + 1
    /\ rp_car' = caractere
    /\ rp_longueur' = longueur
    /\ rp_avant' = Len(mis)
    /\ IF ~LongueurAdmise(longueur)
       THEN /\ rp_issue' = "AssertionError"
            /\ UNCHANGED << env_pc, env_reste, env_tout >>
       ELSE LET contenu == CanoniseValeur(
                    Liste(<<caractere, Entier(REP),
                            Entier(64 + longueur - 1)>>), "VIDEOTEX")
            IN  /\ rp_issue' = "retour"
                /\ env_reste' = [env_reste EXCEPT ![1] = contenu]
                /\ env_tout' = [env_tout EXCEPT ![1] = @ \o contenu]
                /\ env_pc' = [env_pc EXCEPT ![1] = "l238"]
    /\ UNCHANGED << mis_qui, varsFin, varsMode, varsSeq, varsNego, varsUI >>
    /\ UNCHANGED << continuer, varsEntree, varsSortie, varsRS, varsAP >>

\* Repetition run: the writer pump and one thread calling repeter.
NextRepeter ==
    \/ S_Test
    \/ S_Get
    \/ S_GetVide
    \/ S_Ecrire
    \/ S_TaskDone
    \/ \E caractere \in Caracteres, longueur \in Longueurs :
          RP_Appel(caractere, longueur)
    \/ EN_Put(1)

SpecRepeter == Init /\ [][NextRepeter]_vars

\* C30: repeter with a count of 1..40 puts on sortie the character, the
\* REP code and the byte 0x40 + count - 1 and nothing else; with any other
\* count it raises at once and puts nothing.
C30_Repetition ==
    /\ []( (rp_issue = "retour" /\ env_pc[1] = "repos") =>
             /\ rp_longueur \in 1..40
             /\ SubSeq(mis, rp_avant + 1, Len(mis)) =
                   CanoniseValeur(rp_car, "VIDEOTEX")
                      \o <<18, 64 + rp_longueur - 1>> )
    /\ [][ (env_nb' = env_nb + 1 /\ rp_longueur' \notin 1..40) =>
              /\ rp_issue' = "AssertionError"
              /\ sortie' = sortie /\ mis' = mis /\ taches' = taches
              /\ env_pc' = env_pc
         ]_vars

C30_Temoin ==
    /\ rp_issue = "retour" /\ env_pc[1] = "repos" /\ rp_longueur = 40
    /\ rp_car = Entier(65) /\ mis = <<65, 18, 103>> /\ ecrit = <<65, 18, 103>>


\* =================================================================
\* redefinir
\* =================================================================
US == 31

\* the jeu arguments tried; line 1093 accepts 'G0' and 'G1' only
Jeux == {"G0", "G1", "G2"}

\* the characters tried as depuis
Depuis == {65, 233}

\* a drawing of n pixels, every third one off
Motif(n) == [i \in 1..n |-> IF i % 3 = 0 THEN 48 ELSE 49]

\* the dessins arguments tried: no pixel, less than one character, text
\* among the pixels, exactly one character, one character and a half group
Dessins == {Motif(0), Motif(7), <<49, 32, 48, 10, 49>>, Motif(80), Motif(83)}

\* int(octet, 2)
RECURSIVE Binaire(_)
Binaire(bits) ==
    IF bits = <<>> THEN 0
    ELSE 2 * Binaire(SubSeq(bits, 1, Len(bits) - 1)) + bits[Len(bits)]

\* line 1135: the test that selects the sequence of line 1136
JeuG0(jeu) == jeu = "GO"

\* redefinir(depuis, dessins, jeu), lines 1093-1104: the assertions, the
\* choice of the set to redefine and the first character
RD_Appel(car, dessins, jeu) ==
    /\ rd_pc \in {"repos", "fini", "AssertionError"}
    /\ rd_jeu' = jeu
    /\ rd_octet' = <<>>
    /\ rd_compte' = 0
    /\ IF jeu \notin {"G0", "G1"}
       THEN /\ rd_pc' = "AssertionError"
            /\ rd_dessins' = <<>>
            /\ rd_envois' = <<>>
       ELSE /\ rd_pc' = "l1108"
            /\ rd_dessins' = dessins
            /\ rd_envois' =
                 << <<US, 35, 32, 32, 32, IF jeu = "G0" THEN 66 ELSE 67, 73>>,
                    CanoniseValeur(Liste(<< Entier(US), Entier(35),
                                            Texte(<<car>>), Entier(48) >>),
                                   "VIDEOTEX") >>
    /\ UNCHANGED << varsCoeur, varsChamp, varsCont, varsMenu >>

\* lines 1108-1129: one turn of the loop over dessins
RD_Pixel ==
    /\ rd_pc = "l1108"
    /\ rd_dessins # <<>>
    /\ rd_dessins' = Tail(rd_dessins)
    /\ LET pixel == Head(rd_dessins)
           octet == Append(rd_octet, pixel - 48)
           compte == rd_compte + 1
           groupe == IF Len(octet) = 6 THEN << <<64 + Binaire(octet)>> >>
                     ELSE <<>>
           reste == IF Len(octet) = 6 THEN <<>> ELSE octet
           fin == IF compte = 80
                  THEN << <<64 + Binaire(reste \o <<0, 0, 0, 0>>)>>, <<48>> >>
                  ELSE <<>>
       IN  IF pixel # 48 /\ pixel # 49
           THEN UNCHANGED << rd_octet, rd_compte, rd_envois >>
           ELSE /\ rd_envois' = rd_envois \o groupe \o fin
                /\ rd_octet' = IF compte = 80 THEN <<>> ELSE reste
                /\ rd_compte' = IF compte = 80 THEN 0 ELSE compte
    /\ UNCHANGED << rd_pc, rd_jeu >>
    /\ UNCHANGED << varsCoeur, varsChamp, varsCont, varsMenu >>

\* lines 1131-1138: the cursor is positioned and a character set selected
RD_Fin ==
    /\ rd_pc = "l1108"
    /\ rd_dessins = <<>>
    /\ rd_pc' = "fini"
    /\ rd_envois' = rd_envois \o
         << <<US, 65, 65>>,
            IF JeuG0(rd_jeu) THEN <<ESC, 40, 32, 66>> ELSE <<ESC, 41, 32, 67>> >>
    /\ UNCHANGED << rd_jeu, rd_dessins, rd_octet, rd_compte >>
    /\ UNCHANGED << varsCoeur, varsChamp, varsCont, varsMenu >>

\* Redefinition run: one thread calling redefinir.
NextRedefinir ==
    \/ \E d \in Depuis, dessins \in Dessins, jeu \in Jeux :
            RD_Appel(d, dessins, jeu)
    \/ RD_Pixel
    \/ RD_Fin

SpecRedefinir == Init /\ [][NextRedefinir]_vars

\* =================================================================
\* Properties of redefinir (checked under SpecRedefinir)
\* =================================================================
\* C31: when redefinir has returned, the last Sequence it sent selects the
\* set it redefined: ESC 0x28 0x20 0x42 for 'G0', ESC 0x29 0x20 0x43 for
\* 'G1'.
C31_JeuModifie ==
    rd_pc = "fini" =>
        rd_envois[Len(rd_envois)] =
            IF rd_jeu = "G0" THEN <<ESC, 40, 32, 66>> ELSE <<ESC, 41, 32, 67>>


\* =================================================================
\* ChampTexte
\* =================================================================
MaxTouches == 3

\* the keys of the Minitel keyboard, as the device sends them
Touches ==
    [HAUT |-> <<ESC, 91, 65>>, BAS |-> <<ESC, 91, 66>>,
     GAUCHE |-> <<ESC, 91, 68>>, DROITE |-> <<ESC, 91, 67>>,
     ENTREE |-> <<13>>, MAJ_ENTREE |-> <<ESC, 91, 72>>,
     CORRECTION |-> <<SEP, 71>>, ACCENT_CEDILLE |-> <<SS2, 75>>,
     ACCENT_GRAVE |-> <<SS2, 65>>, ACCENT_AIGU |-> <<SS2, 66>>,
     ACCENT_CIRCONFLEXE |-> <<SS2, 67>>, ACCENT_TREMA |-> <<SS2, 72>>]

\* CARACTERES_MINITEL, lines 12-17, as code points
CaracteresMinitel ==
    (97..122) \cup (65..90) \cup (48..57) \cup
    {32, 42, 36, 33, 58, 59, 44, 63, 46, 47, 38, 40, 45, 95, 41, 61, 43, 39,
     64, 35}

\* the keys given to the field: the three editing keys, an accent, the
\* cedilla, a vowel, a consonant and a key the field does not handle
TouchesChamp ==
    {Touches.GAUCHE, Touches.DROITE, Touches.CORRECTION, Touches.ACCENT_AIGU,
     Touches.ACCENT_CEDILLE \o <<99>>, <<97>>, <<110>>, Touches.ENTREE}

\* the constructor arguments tried: longueur_visible, longueur_totale and
\* valeur, among those the assertions of lines 41-50 accept
ArgsChamp ==
    { <<lv, lt, v>> \in (1..2) \X (1..3) \X {<<>>, <<97, 110, 97>>} :
        lv <= lt }

\* int(x) of a value given as twice x: the fractional part is dropped
Tronque(double) ==
    IF double >= 0 THEN double \div 2 ELSE 0 - ((0 - double) \div 2)

Max(a, b) == IF a > b THEN a ELSE b

\* curseur_gauche, lines 152-171, from the cursor x and the shift d
CurseurGauche(x, d) ==
    IF x = 0
    THEN [ok |-> FALSE, x |-> x, decalage |-> d]
    ELSE [ok |-> TRUE, x |-> x - 1,
          decalage |-> IF x - 1 < d
                       THEN Max(0, Tronque(2 * d - ct_visible))
                       ELSE d]

\* curseur_droite, lines 186-205, the field holding n characters
CurseurDroite(x, d, n) ==
    IF x = Min(n, ct_totale)
    THEN [ok |-> FALSE, x |-> x, decalage |-> d]
    ELSE [ok |-> TRUE, x |-> x + 1,
          decalage |-> IF x + 1 > d + ct_visible
                       THEN Max(0, Tronque(2 * d + ct_visible))
                       ELSE d]

\* lines 117-126: the character typed, under the pending accent
Accentue(accent, c) ==
    LET voyelles == <<97, 101, 105, 111, 117>>
        rang == CHOOSE i \in 1..5 : voyelles[i] = c
    IN  IF accent = <<>> \/ c \notin {97, 101, 105, 111, 117} THEN c
        ELSE IF accent = Touches.ACCENT_AIGU
        THEN <<225, 233, 237, 243, 250>>[rang]
        ELSE IF accent = Touches.ACCENT_GRAVE
        THEN <<224, 232, 236, 242, 249>>[rang]
        ELSE IF accent = Touches.ACCENT_CIRCONFLEXE
        THEN <<226, 234, 238, 244, 251>>[rang]
        ELSE IF accent = Touches.ACCENT_TREMA
        THEN <<228, 235, 239, 246, 252>>[rang]
        ELSE c

\* ChampTexte(minitel, posx, posy, longueur_visible, longueur_totale,
\* valeur), lines 55-62
CT_Construire(lv, lt, v) ==
    /\ ct_etat = "neant"
    /\ ct_etat' = "pret"
    /\ ct_visible' = lv
    /\ ct_totale' = lt
    /\ ct_initiale' = v
    /\ ct_valeur' = v
    /\ ct_x' = 0
    /\ ct_decalage' = 0
    /\ ct_accent' = <<>>
    /\ UNCHANGED << ct_bip, ct_gere, ct_nb >>
    /\ UNCHANGED << varsCoeur, varsRed, varsCont, varsMenu >>

\* gere_touche(sequence), lines 86-137, with the cursor moves it makes; what
\* affiche and position send to the Minitel changes no attribute
CT_Touche(touche) ==
    /\ ct_etat = "pret"
    /\ ct_nb < MaxTouches
    /\ ct_nb' = ct_nb + 1
    /\ LET g == CurseurGauche(ct_x, ct_decalage)
           d == CurseurDroite(ct_x, ct_decalage, Len(ct_valeur))
           Insere(c) == SubSeq(ct_valeur, 1, ct_x) \o <<c>> \o
                        SubSeq(ct_valeur, ct_x + 1, Len(ct_valeur))
           Place(c) ==
               LET apres == CurseurDroite(ct_x, ct_decalage, Len(ct_valeur) + 1)
               IN  /\ ct_valeur' = Insere(c)
                   /\ ct_x' = apres.x
                   /\ ct_decalage' = apres.decalage
                   /\ ct_bip' = ~apres.ok
                   /\ ct_accent' = <<>>
                   /\ ct_gere' = TRUE
       IN  IF touche = Touches.GAUCHE
           THEN /\ ct_x' = g.x /\ ct_decalage' = g.decalage /\ ct_bip' = ~g.ok
                /\ ct_accent' = <<>> /\ ct_gere' = TRUE
                /\ UNCHANGED ct_valeur
           ELSE IF touche = Touches.DROITE
           THEN /\ ct_x' = d.x /\ ct_decalage' = d.decalage /\ ct_bip' = ~d.ok
                /\ ct_accent' = <<>> /\ ct_gere' = TRUE
                /\ UNCHANGED ct_valeur
           ELSE IF touche = Touches.CORRECTION
           THEN /\ ct_x' = g.x /\ ct_decalage' = g.decalage /\ ct_bip' = ~g.ok
                /\ ct_accent' = <<>> /\ ct_gere' = TRUE
                /\ ct_valeur' = IF g.ok
                                THEN SubSeq(ct_valeur, 1, g.x) \o
                                     SubSeq(ct_valeur, g.x + 2, Len(ct_valeur))
                                ELSE ct_valeur
           ELSE IF touche \in {Touches.ACCENT_AIGU, Touches.ACCENT_GRAVE,
                               Touches.ACCENT_CIRCONFLEXE, Touches.ACCENT_TREMA}
           THEN /\ ct_accent' = touche /\ ct_gere' = TRUE /\ ct_bip' = FALSE
                /\ UNCHANGED << ct_valeur, ct_x, ct_decalage >>
           ELSE IF touche = Touches.ACCENT_CEDILLE \o <<99>>
           THEN Place(231)
           ELSE IF touche[1] \in CaracteresMinitel
           THEN Place(Accentue(ct_accent, touche[1]))
           ELSE /\ ct_gere' = FALSE /\ ct_bip' = FALSE
                /\ UNCHANGED << ct_valeur, ct_x, ct_decalage, ct_accent >>
    /\ UNCHANGED << ct_etat, ct_visible, ct_totale, ct_initiale >>
    /\ UNCHANGED << varsCoeur, varsRed, varsCont, varsMenu >>

\* Field run: a text field is built and receives keys.
NextChamp ==
    \/ \E a \in ArgsChamp : CT_Construire(a[1], a[2], a[3])
    \/ \E touche \in TouchesChamp : CT_Touche(touche)

SpecChamp == Init /\ [][NextChamp]_vars

\* =================================================================
\* Properties of ChampTexte (checked under SpecChamp)
\* =================================================================
\* C32: a field built with a value of at most longueur_totale characters
\* never holds more than longueur_totale characters, whatever keys it has
\* handled.
C32_LongueurTotale ==
    (ct_etat = "pret" /\ Len(ct_initiale) <= ct_totale) =>
        Len(ct_valeur) <= ct_totale

\* C39: whatever keys the field has handled, the cursor is within the
\* displayed window and within the value: decalage <= curseur_x <=
\* decalage + longueur_visible and 0 <= curseur_x <= min(len(valeur),
\* longueur_totale).
C39_Fenetre ==
    ct_etat = "pret" =>
        /\ ct_decalage <= ct_x
        /\ ct_x <= ct_decalage + ct_visible
        /\ 0 <= ct_x
        /\ ct_x <= Min(Len(ct_valeur), ct_totale)


\* =================================================================
\* Conteneur
\* =================================================================
MaxElements == 3

\* the classes of the elements added: a Label is not activable (UI.py line
\* 85), a ChampTexte and a Menu are
Classes == {"Label", "ChampTexte", "Menu"}

\* element.activable
Activable(classe) == classe # "Label"

\* the keys given to the container
TouchesCont == {Touches.ENTREE, Touches.MAJ_ENTREE, Touches.HAUT, <<97>>}

\* element_actif.gere_touche(sequence), line 115: whether an element of that
\* class handles the key
ElementGere(classe, touche) ==
    IF classe = "ChampTexte"
    THEN \/ touche \in {Touches.GAUCHE, Touches.DROITE, Touches.CORRECTION,
                        Touches.ACCENT_AIGU, Touches.ACCENT_GRAVE,
                        Touches.ACCENT_CIRCONFLEXE, Touches.ACCENT_TREMA,
                        Touches.ACCENT_CEDILLE \o <<99>>}
         \/ touche[1] \in CaracteresMinitel
    ELSE IF classe = "Menu"
    THEN touche \in {Touches.HAUT, Touches.BAS}
    ELSE FALSE

\* suivant, lines 209-225: the element active afterwards
Suivant(actif) ==
    LET apres == { i \in (actif + 1)..Len(cn_elements) :
                     Activable(cn_elements[i]) }
    IN  IF apres = {} THEN actif
        ELSE CHOOSE i \in apres : \A j \in apres : i <= j

\* precedent, lines 238-254: the element active afterwards
Precedent(actif) ==
    LET depart == IF actif = 0 THEN Len(cn_elements) + 1 ELSE actif
        avant == { i \in 1..(depart - 1) : Activable(cn_elements[i]) }
    IN  IF avant = {} THEN actif
        ELSE CHOOSE i \in avant : \A j \in avant : i >= j

\* ajoute(element), lines 185-196
CN_Ajoute(classe) ==
    /\ Len(cn_elements) < MaxElements
    /\ cn_elements' = Append(cn_elements, classe)
    /\ cn_actif' = IF cn_actif = 0 /\ Activable(classe)
                   THEN Len(cn_elements) + 1 ELSE cn_actif
    /\ cn_touche' = <<>>
    /\ UNCHANGED << cn_avant, cn_bip, cn_gere >>
    /\ UNCHANGED << varsCoeur, varsRed, varsChamp, varsMenu >>

\* gere_touche(sequence), lines 108-138; bip tells whether the active
\* element beeped while it handled the key
CN_Touche(touche, bip) ==
    /\ cn_touche' = touche
    /\ cn_avant' = cn_actif
    /\ IF cn_actif = 0
       THEN /\ cn_gere' = FALSE /\ cn_bip' = FALSE /\ UNCHANGED cn_actif
       ELSE IF ElementGere(cn_elements[cn_actif], touche)
       THEN /\ cn_gere' = TRUE /\ cn_bip' = bip /\ UNCHANGED cn_actif
       ELSE IF touche = Touches.ENTREE
       THEN /\ cn_actif' = Suivant(cn_actif)
            /\ cn_gere' = TRUE /\ cn_bip' = FALSE
       ELSE IF touche = Touches.MAJ_ENTREE
       THEN /\ cn_actif' = Precedent(cn_actif)
            /\ cn_gere' = TRUE /\ cn_bip' = FALSE
       ELSE /\ cn_gere' = FALSE /\ cn_bip' = FALSE /\ UNCHANGED cn_actif
    /\ UNCHANGED cn_elements
    /\ UNCHANGED << varsCoeur, varsRed, varsChamp, varsMenu >>

\* Container run: elements are added and keys arrive.
NextCont ==
    \/ \E classe \in Classes : CN_Ajoute(classe)
    \/ \E touche \in TouchesCont, bip \in BOOLEAN : CN_Touche(touche, bip)

SpecCont == Init /\ [][NextCont]_vars

\* =================================================================
\* Properties of Conteneur (checked under SpecCont)
\* =================================================================
Activables == { i \in 1..Len(cn_elements) : Activable(cn_elements[i]) }

\* C33: ENTER arriving while the last activable element is active, and
\* SHIFT+ENTER while the first one is, make the Minitel beep and leave the
\* active element as it was.
C33_BipAuBout ==
    /\ (/\ cn_touche = Touches.ENTREE
        /\ cn_avant # 0
        /\ \A i \in Activables : i <= cn_avant)
            => (cn_bip /\ cn_actif = cn_avant)
    /\ (/\ cn_touche = Touches.MAJ_ENTREE
        /\ cn_avant # 0
        /\ \A i \in Activables : i >= cn_avant)
            => (cn_bip /\ cn_actif = cn_avant)


\* =================================================================
\* Menu
\* =================================================================
MaxOptions == 3

\* the options lists tried: every list of one to MaxOptions entries, each an
\* option or the separator '-'
ListesOptions == UNION { [1..n -> {"Option", "-"}] : n \in 1..MaxOptions }

\* the keys given to the menu
TouchesMenu == {Touches.HAUT, Touches.BAS, Touches.ENTREE}

\* None, returned when no option is found
Aucune == 0 - 1

\* Variant: the following line is taken, separator or not.
OptionSuivante_SansSaut(numero) ==
    IF numero + 1 < Len(mn_options) THEN numero + 1 ELSE Aucune

\* option_suivante(numero), lines 228-234; indexes start at 0 as in the
\* code
OptionSuivante(numero) ==
    LET apres == { i \in (numero + 1)..(Len(mn_options) - 1) :
                     mn_options[i + 1] # "-" }
    IN  IF apres = {} THEN Aucune
        ELSE CHOOSE i \in apres : \A j \in apres : i <= j

\* option_precedente(numero), lines 255-261
OptionPrecedente(numero) ==
    LET avant == { i \in 0..(numero - 1) : mn_options[i + 1] # "-" }
    IN  IF avant = {} THEN Aucune
        ELSE CHOOSE i \in avant : \A j \in avant : i >= j

\* Menu(minitel, options, posx, posy, selection), lines 47-61
MN_Construire(options, selection) ==
    /\ mn_etat = "neant"
    /\ mn_etat' = "pret"
    /\ mn_options' = options
    /\ mn_selection' = selection
    /\ mn_initiale' = selection
    /\ UNCHANGED << mn_touche, mn_avant, mn_bip, mn_gere >>
    /\ UNCHANGED << varsCoeur, varsRed, varsChamp, varsCont >>

\* gere_touche(sequence), lines 83-103, with change_selection, lines
\* 193-207; what affiche_ligne sends changes no attribute
MN_Touche(touche) ==
    /\ mn_etat = "pret"
    /\ mn_touche' = touche
    /\ mn_avant' = mn_selection
    /\ LET selection == IF touche = Touches.HAUT
                        THEN OptionPrecedente(mn_selection)
                        ELSE OptionSuivante(mn_selection)
       IN  IF touche \in {Touches.HAUT, Touches.BAS}
           THEN /\ mn_gere' = TRUE
                /\ mn_bip' = (selection = Aucune)
                /\ mn_selection' = IF selection = Aucune THEN mn_selection
                                   ELSE selection
           ELSE /\ mn_gere' = FALSE /\ mn_bip' = FALSE
                /\ UNCHANGED mn_selection
    /\ UNCHANGED << mn_etat, mn_options, mn_initiale >>
    /\ UNCHANGED << varsCoeur, varsRed, varsChamp, varsCont >>

\* Menu run: a menu is built and receives keys.
NextMenu ==
    \/ \E options \in ListesOptions :
            \E selection \in 0..(Len(options) - 1) :
                MN_Construire(options, selection)
    \/ \E touche \in TouchesMenu : MN_Touche(touche)

SpecMenu == Init /\ [][NextMenu]_vars

\* =================================================================
\* Properties of Menu (checked under SpecMenu)
\* =================================================================
\* index i designates an option that is not the separator
Selectionnable(i) ==
    i \in 0..(Len(mn_options) - 1) /\ mn_options[i + 1] # "-"

\* C40: a menu built with its selection on an option keeps its selection on
\* a valid index of an option that is not the separator, whatever HAUT and
\* BAS keys it has received; HAUT with no option above the selection and
\* BAS with none below leave the selection where it was.
C40_Selection ==
    (mn_etat = "pret" /\ Selectionnable(mn_initiale)) =>
        /\ Selectionnable(mn_selection)
        /\ (/\ mn_touche = Touches.HAUT
            /\ \A i \in 0..(mn_avant - 1) : ~Selectionnable(i))
                => mn_selection = mn_avant
        /\ (/\ mn_touche = Touches.BAS
            /\ \A i \in (mn_avant + 1)..(Len(mn_options) - 1) :
                    ~Selectionnable(i))
                => mn_selection = mn_avant

C40_Temoin ==
    /\ mn_options = <<"Option", "-", "Option">>
    /\ mn_initiale = 0
    /\ mn_touche = Touches.BAS
    /\ mn_avant = 2 /\ mn_selection = 2 /\ mn_bip


\* =================================================================
\* Further properties of identifier, deviner_vitesse and definir_vitesse
\* (checked under SpecNego)
\* =================================================================
\* C34: after identifier with a valid reply, the manufacturer byte 'B' with
\* the model byte 'v' gives the constructeur 'Philips', and the
\* manufacturer byte 'C' with a version byte among '4', '5', ';', '<' gives
\* 'Telic ou Matra'.
C34_Correction ==
    (n_op = "identifier" /\ Valide(ReponseRom)) =>
        /\ (ReponseRom[2] = 66 /\ ReponseRom[3] = 118) =>
              Capacite.constructeur = "Philips"
        /\ (ReponseRom[2] = 67 /\ ReponseRom[4] \in {52, 53, 59, 60}) =>
              Capacite.constructeur = "Telic ou Matra"

\* C37: while neither deviner_vitesse nor definir_vitesse is running,
\* self.vitesse is the baud rate of the transport.
C37_VitesseTransport ==
    (n_pc = "repos" \/ n_op = "identifier") => vitesse = debit

\* C38: identifier never modifies CAPACITES_BASIQUES nor TYPE_MINITELS, and
\* after a reply that fails the validation the capability record holds the
\* basic defaults as they were at the start.
C38_TablesIntactes ==
    /\ basiques = CapacitesBasiques
    /\ types = TypeMinitels
    /\ (n_op = "identifier" /\ ~Valide(ReponseRom)) =>
            Capacite = CapacitesBasiques


\* =================================================================
\* The reader pump against appeler (checked under SpecAppel)
\* =================================================================
\* C35: no byte that the reader pump had read from the transport when
\* appeler replaced the receive queue is among the bytes appeler returns.
C35_SansCourse ==
    AppelRendu => \A i \in 1..Len(a_retires) : a_retires[i].num > a_lus


\* =================================================================
\* definir_mode against the device (checked under SpecMode)
\* =================================================================
\* C36: whenever definir_mode has returned, self.mode is the mode the
\* device is in, the device changing mode exactly when it acknowledges.
C36_ModeAppareil == ModeRendu => mode = d_mode

====
